---- MODULE Spec2Model ----
(***************************************************************************)
(* Psynapse graph executor: streaming execution of a node graph.           *)
(*                                                                         *)
(* The backend sources (executor.py, main.py) are described by the         *)
(* architecture document and the node guides; the model follows those      *)
(* descriptions and, where they are silent, the design specification.      *)
(*                                                                         *)
(* One execution = one request to POST /execute/stream.  Executions share  *)
(* the process environment `env` and the admission lock `lock`.            *)
(***************************************************************************)
EXTENDS Integers, Sequences, FiniteSets, TLC

\* ------------------------------------------------------------------ bounds
NumNodes == 3          \* nodes of a submitted graph
MaxEdges == 2          \* edges of a submitted graph
MaxReports == 2        \* reporter calls made by operation bodies in one execution
MaxLines == 2          \* lines of a response read by the client
MaxLiveLines == 1      \* the same, where ending is checked
MaxSortEdges == 4      \* edges of a graph given to the sort alone
MaxRuns == 2           \* executions started in the editor
MaxLoads == 1          \* workflow files opened in the editor
MaxUpdates == 1        \* progress or streaming frames of one node
MaxCanvas == 3         \* nodes dropped on the canvas
MaxInputs == 3         \* input handles of a list node

\* --------------------------------------------------------------- universes
Execs == {1, 2}
NodeIds == 1..NumNodes
Kinds == {"plain", "progress", "stream", "view"}
WorkerKinds == {"progress", "stream"}
Keys == {"K1", "K2"}
Absent == "absent"     \* a variable that is not in os.environ
Null == [t |-> "none", v |-> "None"]   \* Python None as a node output
NoNode == 0            \* a frame without node_id

\* ------------------------------------------------------------------- values

\* A Python value: its type and its printed form.  A multi-output return is a
\* record from output keys to values.
IntV(s) == [t |-> "int", v |-> s]
FloatV(s) == [t |-> "float", v |-> s]
StrV(s) == [t |-> "str", v |-> s]
BoolV(s) == [t |-> "bool", v |-> s]
ListV(s) == [t |-> "list", v |-> s]
DictV(s) == [t |-> "dict", v |-> s]
Unset == [t |-> "unset", v |-> ""]   \* a parameter that is given no value

\* declared parameter types
Types == {"int", "float", "str", "bool", "list", "dict", "any", "literal"}

\* float(value)
PyFloat(value) ==
    CASE value.t = "float" -> [ok |-> TRUE, val |-> value]
      [] value.t = "int" -> [ok |-> TRUE, val |-> FloatV(value.v \o ".0")]
      [] value.t = "bool" ->
            [ok |-> TRUE, val |-> FloatV(IF value.v = "True" THEN "1.0" ELSE "0.0")]
      [] value.t = "str" /\ value.v \in {"0", "5", "7"} ->
            [ok |-> TRUE, val |-> FloatV(value.v \o ".0")]
      [] value.t = "str" /\ value.v \in {"1.5", "5.0"} ->
            [ok |-> TRUE, val |-> FloatV(value.v)]
      [] OTHER -> [ok |-> FALSE, val |-> Unset]

\* int(value)
PyInt(value) ==
    CASE value.t = "int" -> [ok |-> TRUE, val |-> value]
      [] value.t = "bool" ->
            [ok |-> TRUE, val |-> IntV(IF value.v = "True" THEN "1" ELSE "0")]
      [] value.t = "float" /\ value.v = "1.5" -> [ok |-> TRUE, val |-> IntV("1")]
      [] value.t = "float" /\ value.v = "5.0" -> [ok |-> TRUE, val |-> IntV("5")]
      [] value.t = "str" /\ value.v \in {"0", "5", "7"} ->
            [ok |-> TRUE, val |-> IntV(value.v)]
      [] OTHER -> [ok |-> FALSE, val |-> Unset]

\* str(value)
PyStr(value) == [ok |-> TRUE, val |-> StrV(value.v)]

\* bool(value): truthiness
PyBool(value) ==
    [ok |-> TRUE,
     val |-> BoolV(IF \/ value.t = "none"
                      \/ value.v \in {"0", "0.0", "", "False", "[]", "{}"}
                   THEN "False" ELSE "True")]

\* json.loads of a string, for a parameter declared list or dict
ParseJson(value) ==
    CASE value.v = "[1]" -> [ok |-> TRUE, val |-> ListV("[1]")]
      [] value.v = "{}" -> [ok |-> TRUE, val |-> DictV("{}")]
      [] value.v = "5" -> [ok |-> TRUE, val |-> IntV("5")]
      [] value.v = "7" -> [ok |-> TRUE, val |-> IntV("7")]
      [] OTHER -> [ok |-> FALSE, val |-> Unset]

\* the admissible values of a parameter declared Literal[...]
LiteralValues == {StrV("5"), StrV("7")}

\* list, dict, literal and any parameters
CoerceOther(param_type, value) ==
    CASE param_type \in {"list", "dict"} /\ value.t = "str" -> ParseJson(value)
      [] param_type = "literal" /\ value \notin LiteralValues ->
            [ok |-> FALSE, val |-> Unset]
      [] OTHER -> [ok |-> TRUE, val |-> value]

\* a plausible slip: the int test does not let booleans through
CoerceBoolThroughInt(param_type, value) ==
    CASE param_type = "float" /\ value.t # "float" -> PyFloat(value)
      [] param_type = "int" /\ value.t # "int" -> PyInt(value)
      [] param_type = "str" /\ value.t # "str" -> PyStr(value)
      [] param_type = "bool" /\ value.t # "bool" -> PyBool(value)
      [] OTHER -> CoerceOther(param_type, value)

\* type conversion of one input value to the declared parameter type
Coerce(param_type, value) ==
    CASE param_type = "float" /\ value.t # "float" -> PyFloat(value)
      [] param_type = "int" /\ value.t \notin {"int", "bool"} -> PyInt(value)
      [] param_type = "str" /\ value.t # "str" -> PyStr(value)
      [] param_type = "bool" /\ value.t # "bool" -> PyBool(value)
      [] OTHER -> CoerceOther(param_type, value)

VARIABLES
    request,     \* per execution: the decoded ExecuteRequest (or absent)
    env,         \* os.environ restricted to Keys
    env0,        \* the host environment before any execution (history)
    lock,        \* the execution admitted into the env window, 0 when free
    pc,          \* per execution: position of the request handler
    saved,       \* per execution: prior values of the variables it overrode
    order,       \* per execution: result of the topological sort
    idx,         \* per execution: 1-indexed position of the node being run
    outputs,     \* per execution: node_outputs
    viewResults, \* per execution: view_node_results
    stream,      \* per execution: SSE frames sent so far
    worker,      \* per execution: state of the worker thread of the current node
    queue,       \* per execution: reporter events not yet forwarded
    accum,       \* per execution: accumulated streaming text of the current node
    nReports,    \* per execution: reporter calls made so far
    reported,    \* per execution, per node: what the body passed to its reporter (history)
    raised,      \* per execution: nodes whose operation raised (history)
    observed,    \* per execution: environments seen by its nodes (history)
    resolved,    \* per execution, per node: the inputs gathered for it (history)
    returned,    \* per execution, per node: what its operation body returned (history)
    client,      \* the browser's reader of one /execute/stream response
    editor       \* the state of the PsynapseEditor component

vars == <<request, env, env0, lock, pc, saved, order, idx, outputs, viewResults,
          stream, worker, queue, accum, nReports, reported, raised, observed,
          resolved, returned, client, editor>>

\* ------------------------------------------------------------ topological sort

\* in-degree of node n: the count of incoming edges
InDegree(n, edges) ==
    Cardinality({i \in 1..Len(edges) : edges[i][2] = n})

\* a plausible slip: a neighbour reached by several edges is relaxed once
NeighborsDistinct(n, edges) ==
    LET F[i \in 0..Len(edges)] ==
            IF i = 0 THEN <<>>
            ELSE IF /\ edges[i][1] = n
                    /\ \A j \in 1..(i - 1) : edges[j] # edges[i]
                 THEN Append(F[i-1], edges[i][2]) ELSE F[i-1]
    IN F[Len(edges)]

\* the neighbours of n, one entry per outgoing edge, in edge order
Neighbors(n, edges) ==
    LET F[i \in 0..Len(edges)] ==
            IF i = 0 THEN <<>>
            ELSE IF edges[i][1] = n THEN Append(F[i-1], edges[i][2]) ELSE F[i-1]
    IN F[Len(edges)]

\* nodes of in-degree zero, in node-list order
ZeroInDegree(nodes, edges) ==
    SelectSeq(nodes, LAMBDA n : InDegree(n, edges) = 0)

RECURSIVE Relax(_, _, _)
\* steps 3b/3c: decrement each neighbour, enqueue it when it reaches zero
Relax(nbrs, indeg, q) ==
    IF nbrs = <<>> THEN <<indeg, q>>
    ELSE LET m == Head(nbrs)
             d == indeg[m] - 1
         IN Relax(Tail(nbrs), [indeg EXCEPT ![m] = d],
                  IF d = 0 THEN Append(q, m) ELSE q)

RECURSIVE KahnLoop(_, _, _, _)
\* step 3: dequeue, append to the sorted list, relax the neighbours
KahnLoop(q, indeg, sorted, edges) ==
    IF q = <<>> THEN sorted
    ELSE LET n == Head(q)
             r == Relax(Neighbors(n, edges), indeg, Tail(q))
         IN KahnLoop(r[2], r[1], Append(sorted, n), edges)

\* a plausible slip: the nodes are run in request order
RequestOrder(nodes, edges) == nodes

TopologicalSort(nodes, edges) ==
    KahnLoop(ZeroInDegree(nodes, edges),
             [n \in NodeIds |-> InDegree(n, edges)],
             <<>>, edges)

\* a plausible slip: a cycle is reported only when nothing could be sorted
HasCycleNothingSorted(nodes, edges) ==
    Len(TopologicalSort(nodes, edges)) = 0 /\ Len(nodes) > 0

\* step 4: the sorted list is shorter than the node list
HasCycle(nodes, edges) == Len(TopologicalSort(nodes, edges)) # Len(nodes)


\* ------------------------------------------------------------------ reporters

\* _ProgressReporter.update: percent = current / total when total > 0, else 0;
\* the result is the list of callback invocations (percent in hundredths)
ProgressUpdate(current, total, message, hasCallback) ==
    IF hasCallback
    THEN << <<IF total > 0 THEN (current * 100) \div total ELSE 0, message>> >>
    ELSE <<>>

\* a plausible slip: the emptiness test is missing
StreamEmitAll(chunk, hasCallback) ==
    IF hasCallback THEN <<chunk>> ELSE <<>>

\* _StreamReporter.emit: empty chunks (and chunks without a callback) are dropped
StreamEmit(chunk, hasCallback) ==
    IF hasCallback /\ chunk # <<>> THEN <<chunk>> ELSE <<>>

\* the calls a progress body can make as its k-th report: update(k, total, "k")
ProgressCalls(k) ==
    {[current |-> k, total |-> t, message |-> k] : t \in {0, 2}}

\* what the reporter hands to its callback for one call of the body
ReporterCall(call, hasCallback) ==
    ProgressUpdate(call.current, call.total, call.message, hasCallback)

\* the chunks a stream body can emit as its k-th chunk: the empty string or a
\* text that names k
ChunkChoices(k) == {<<>>, <<k>>}

\* --------------------------------------------------------------------- frames

Frame(n, num, status, data) ==
    [node |-> n, num |-> num, status |-> status, data |-> data]

IsTerminalFrame(f) ==
    f.status = "done" \/ (f.status = "error" /\ f.node = NoNode)

\* ---------------------------------------------------------------- environment

NoEnvVars == [k \in Keys |-> Absent]

\* keys the request overrides
EnvKeys(e) == {k \in Keys : request[e].env_vars[k] # Absent}

\* a plausible slip: a variable that did not exist before is left set
RestoredValueKeepsNew(prior, current) ==
    IF prior = Absent THEN current ELSE prior

\* restoring one variable: pop it when it did not exist, else put the prior value
RestoredValue(prior, current) ==
    IF prior = Absent THEN Absent ELSE prior

\* a plausible slip: requests are admitted without serialization
CanAdmitAlways(e) == TRUE

\* one-execution-at-a-time admission
CanAdmit(e) == lock = 0

\* ----------------------------------------------------------------- operations

\* The schema of a registered operation: its parameters (name, declared type,
\* schema default or Unset), its declared output keys (none for a single output)
\* and whether its body can raise.
Param(name, type, default) == [name |-> name, type |-> type, default |-> default]

\* an operation without parameters whose result only identifies the node
OpaqueOp == [name |-> "opaque", params |-> {}, returns |-> {}, mayRaise |-> TRUE]

\* def pair() -> AnnotatedDict[Literal["first", "last"]]
PairOp == [name |-> "pair", params |-> {}, returns |-> {"first", "last"},
           mayRaise |-> TRUE]

\* def echo(a: <type> [= default]): returns its argument
EchoOp(type, default) ==
    [name |-> "echo", params |-> {Param("a", type, default)}, returns |-> {},
     mayRaise |-> FALSE]

\* def join(a: <type>, b: int = 7): returns a
JoinOp(type) ==
    [name |-> "join",
     params |-> {Param("a", type, Unset), Param("b", "int", IntV("7"))},
     returns |-> {}, mayRaise |-> FALSE]

\* the value an opaque operation of node n returns
OpaqueResult(n) == IntV(ToString(n))

\* values a producer can return under one key
SourceValues ==
    {IntV("5"), FloatV("1.5"), StrV("5"), StrV("abc"), StrV("[1]"), BoolV("True"),
     ListV("[1]"), DictV("{}")}

\* the value of argument p in a set of (name, value) pairs
ArgValue(args, p) == (CHOOSE x \in args : x.name = p).value

\* what the body of op can return when called for node n with args
BodyReturns(op, n, args) ==
    CASE op.name = "pair" ->
            {[first |-> x, last |-> StrV("last")] : x \in SourceValues}
               \cup {[first |-> StrV("5")]}
      [] op.name \in {"echo", "join"} ->
            {IF ArgValue(args, "a") = Unset THEN StrV("default")
                                            ELSE ArgValue(args, "a")}
      [] OTHER -> {OpaqueResult(n)}

\* a plausible slip: the returned dictionary is not validated
ValidReturnAlways(op, r) == TRUE

\* AnnotatedDict validation: the returned dictionary has every declared key
ValidReturn(op, r) == op.returns \subseteq DOMAIN r \/ op.returns = {}

\* a plausible slip: every consumer receives the whole dictionary
RouteWholeMapping(e, ed) == outputs[e][ed[1]]

\* the value an edge carries: the producer's output, or the value under the
\* edge's sourceHandle when the producer declares output keys
RouteOutput(e, ed) ==
    LET out == outputs[e][ed[1]]
    IN IF request[e].func[ed[1]].returns # {} /\ out # Null
       THEN out[ed[3]]
       ELSE out

\* edges into parameter p of node n
Inbound(e, n, p) ==
    SelectSeq(request[e].edges, LAMBDA ed : ed[2] = n /\ ed[4] = p)

\* the literal stored in node data for parameter p of node n (Unset if none)
DataLiteral(e, n, p) ==
    IF \E d \in request[e].data[n] : d.name = p
    THEN (CHOOSE d \in request[e].data[n] : d.name = p).value
    ELSE Unset

\* a plausible slip: a literal in node data wins over a connected edge
ResolveInputLiteralFirst(e, n, prm) ==
    IF DataLiteral(e, n, prm.name) # Unset THEN DataLiteral(e, n, prm.name)
    ELSE IF Inbound(e, n, prm.name) # <<>>
    THEN RouteOutput(e, Inbound(e, n, prm.name)[Len(Inbound(e, n, prm.name))])
    ELSE prm.default

\* input gathering for one parameter: connected edge, else node data, else the
\* schema default (Unset when there is none)
ResolveInput(e, n, prm) ==
    IF Inbound(e, n, prm.name) # <<>>
    THEN RouteOutput(e, Inbound(e, n, prm.name)[Len(Inbound(e, n, prm.name))])
    ELSE IF DataLiteral(e, n, prm.name) # Unset THEN DataLiteral(e, n, prm.name)
    ELSE prm.default

ResolveInputs(e, n) ==
    {[name |-> prm.name, value |-> ResolveInput(e, n, prm)] :
        prm \in request[e].func[n].params}

\* conversion of one gathered input (a parameter without a value is left out)
CoerceParam(prm, value) ==
    IF value = Unset THEN [ok |-> TRUE, val |-> Unset] ELSE Coerce(prm.type, value)

\* every gathered input of node n converts to its declared type
CoercionOk(e, n) ==
    \A prm \in request[e].func[n].params :
        CoerceParam(prm, ArgValue(resolved[e][n], prm.name)).ok

\* the arguments the body of node n is called with
CoercedInputs(e, n) ==
    {[name |-> prm.name,
      value |-> CoerceParam(prm, ArgValue(resolved[e][n], prm.name)).val] :
        prm \in request[e].func[n].params}

\* every edge references nodes of the node list
EdgesValid(nodes, edges) ==
    \A k \in 1..Len(edges) :
        /\ \E i \in 1..Len(nodes) : nodes[i] = edges[k][1]
        /\ \E i \in 1..Len(nodes) : nodes[i] = edges[k][2]

\* ------------------------------------------------------------------- helpers

CurNode(e) == order[e][idx[e]]
CurKind(e) == request[e].kind[CurNode(e)]

\* value flowing into a view node's "input" handle (null when unconnected)
ViewInput(e, v) ==
    LET inbound == SelectSeq(request[e].edges, LAMBDA ed : ed[2] = v)
    IN IF inbound = <<>> THEN Null ELSE RouteOutput(e, inbound[Len(inbound)])

Emit(e, f) == stream' = [stream EXCEPT ![e] = Append(@, f)]

\* a plausible slip: the pump stops as soon as the worker thread is no longer alive
CanFinishNoDrain(e) == worker[e] \in {"returned", "raised"}

\* the pump may end the node: the worker is finished and every event is forwarded
CanFinish(e) == worker[e] \in {"returned", "raised"} /\ queue[e] = <<>>

\* accumulated text at the start of a node invocation
FreshAccum(e) == <<>>


\* -------------------------------------------------------------------- actions

\* The server admits the request into the env window.
Admit(e) ==
    /\ pc[e] = "waiting"
    /\ CanAdmit(e)
    /\ lock' = e
    /\ pc' = [pc EXCEPT ![e] = "admitted"]
    /\ UNCHANGED <<editor, client, resolved, returned, request, env, env0, saved, order, idx, outputs, viewResults,
                   stream, worker, queue, accum, nReports, reported, raised, observed>>

\* The executor records the prior value of every variable of env_vars and sets it.
ApplyEnv(e) ==
    /\ pc[e] = "admitted"
    /\ saved' = [saved EXCEPT ![e] =
                    [k \in Keys |-> IF k \in EnvKeys(e) THEN env[k] ELSE Absent]]
    /\ env' = [k \in Keys |-> IF k \in EnvKeys(e) THEN request[e].env_vars[k]
                                                  ELSE env[k]]
    /\ pc' = [pc EXCEPT ![e] = "sorting"]
    /\ UNCHANGED <<editor, client, resolved, returned, request, env0, lock, order, idx, outputs, viewResults,
                   stream, worker, queue, accum, nReports, reported, raised, observed>>

\* a plausible slip: the cycle error is yielded but the sorted nodes still run
SortContinues(e) ==
    /\ pc[e] = "sorting"
    /\ LET sorted == TopologicalSort(request[e].nodes, request[e].edges)
       IN /\ IF HasCycle(request[e].nodes, request[e].edges)
             THEN Emit(e, Frame(NoNode, 0, "error", "cycle"))
             ELSE UNCHANGED stream
          /\ order' = [order EXCEPT ![e] = sorted]
          /\ idx' = [idx EXCEPT ![e] = 1]
          /\ pc' = [pc EXCEPT ![e] = "run"]
    /\ UNCHANGED <<editor, client, resolved, returned, request, env, env0, lock, saved, outputs, viewResults,
                   worker, queue, accum, nReports, reported, raised, observed>>

\* a plausible slip: edges that name unknown nodes are dropped and the rest runs
SortIgnoresDangling(e) ==
    /\ pc[e] = "sorting"
    /\ LET known == SelectSeq(request[e].edges,
                              LAMBDA ed : EdgesValid(request[e].nodes, <<ed>>))
           sorted == TopologicalSort(request[e].nodes, known)
       IN IF HasCycle(request[e].nodes, known)
          THEN /\ Emit(e, Frame(NoNode, 0, "error", "graph"))
               /\ pc' = [pc EXCEPT ![e] = "restoring"]
               /\ UNCHANGED <<order, idx>>
          ELSE /\ order' = [order EXCEPT ![e] = sorted]
               /\ idx' = [idx EXCEPT ![e] = 1]
               /\ pc' = [pc EXCEPT ![e] = "run"]
               /\ UNCHANGED stream
    /\ UNCHANGED <<editor, client, resolved, returned, request, env, env0, lock, saved, outputs,
                   viewResults, worker, queue, accum, nReports, reported, raised,
                   observed>>

\* Structural check and topological sort; an edge to an unknown node or a cycle
\* raises and is reported as the global error frame.
Sort(e) ==
    /\ pc[e] = "sorting"
    /\ LET sorted == TopologicalSort(request[e].nodes, request[e].edges)
       IN IF \/ ~EdgesValid(request[e].nodes, request[e].edges)
             \/ HasCycle(request[e].nodes, request[e].edges)
          THEN /\ Emit(e, Frame(NoNode, 0, "error", "graph"))
               /\ pc' = [pc EXCEPT ![e] = "restoring"]
               /\ UNCHANGED <<order, idx>>
          ELSE /\ order' = [order EXCEPT ![e] = sorted]
               /\ idx' = [idx EXCEPT ![e] = 1]
               /\ pc' = [pc EXCEPT ![e] = "run"]
               /\ UNCHANGED stream
    /\ UNCHANGED <<editor, client, resolved, returned, request, env, env0, lock, saved, outputs, viewResults,
                   worker, queue, accum, nReports, reported, raised, observed>>

\* a plausible slip: the worker thread is started and never waited for
DispatchNoJoin(e) ==
    /\ pc[e] = "run"
    /\ idx[e] <= Len(order[e])
    /\ Emit(e, Frame(CurNode(e), idx[e], "executing", "inputs"))
    /\ observed' = [observed EXCEPT ![e] = @ \cup {env}]
    /\ resolved' = [resolved EXCEPT ![e][CurNode(e)] = ResolveInputs(e, CurNode(e))]
    /\ IF CurKind(e) \in WorkerKinds
       THEN /\ idx' = [idx EXCEPT ![e] = @ + 1]
            /\ UNCHANGED pc
       ELSE /\ pc' = [pc EXCEPT ![e] = "inline"]
            /\ UNCHANGED idx
    /\ UNCHANGED <<editor, client, returned, request, env, env0, lock, saved, order, outputs, worker, queue,
                   accum, viewResults, nReports, reported, raised>>

\* a plausible slip: node_number is the 0-based loop index
DispatchZeroIndexed(e) ==
    /\ pc[e] = "run"
    /\ idx[e] <= Len(order[e])
    /\ Emit(e, Frame(CurNode(e), idx[e] - 1, "executing", "inputs"))
    /\ observed' = [observed EXCEPT ![e] = @ \cup {env}]
    /\ resolved' = [resolved EXCEPT ![e][CurNode(e)] = ResolveInputs(e, CurNode(e))]
    /\ IF CurKind(e) \in WorkerKinds
       THEN /\ worker' = [worker EXCEPT ![e] = "running"]
            /\ queue' = [queue EXCEPT ![e] = <<>>]
            /\ accum' = [accum EXCEPT ![e] = FreshAccum(e)]
            /\ pc' = [pc EXCEPT ![e] = "pump"]
       ELSE /\ pc' = [pc EXCEPT ![e] = "inline"]
            /\ UNCHANGED <<worker, queue, accum>>
    /\ UNCHANGED <<editor, client, returned, request, env, env0, lock, saved, order, idx, outputs,
                   viewResults, nReports, reported, raised>>

\* The next node in order is dispatched: "executing" is yielded; a progress or
\* stream operation is instantiated with a fresh reporter and started on a thread.
Dispatch(e) ==
    /\ pc[e] = "run"
    /\ idx[e] <= Len(order[e])
    /\ Emit(e, Frame(CurNode(e), idx[e], "executing", "inputs"))
    /\ observed' = [observed EXCEPT ![e] = @ \cup {env}]
    /\ resolved' = [resolved EXCEPT ![e][CurNode(e)] = ResolveInputs(e, CurNode(e))]
    /\ IF CurKind(e) \in WorkerKinds
       THEN /\ worker' = [worker EXCEPT ![e] = "running"]
            /\ queue' = [queue EXCEPT ![e] = <<>>]
            /\ accum' = [accum EXCEPT ![e] = FreshAccum(e)]
            /\ pc' = [pc EXCEPT ![e] = "pump"]
       ELSE /\ pc' = [pc EXCEPT ![e] = "inline"]
            /\ UNCHANGED <<worker, queue, accum>>
    /\ UNCHANGED <<editor, client, returned, request, env, env0, lock, saved, order, idx, outputs,
                   viewResults, nReports, reported, raised>>

\* the node ends with `status`; its output is recorded and the next node is due
EndNode(e, status, out, data) ==
    /\ Emit(e, Frame(CurNode(e), idx[e], status, data))
    /\ outputs' = [outputs EXCEPT ![e][CurNode(e)] = out]
    /\ idx' = [idx EXCEPT ![e] = @ + 1]
    /\ pc' = [pc EXCEPT ![e] = "run"]

\* A plain operation is called with the converted inputs and returns; a return
\* value that lacks a declared output key is a failure of the node.
PlainReturn(e) ==
    /\ pc[e] = "inline"
    /\ CurKind(e) = "plain"
    /\ CoercionOk(e, CurNode(e))
    /\ \E r \in BodyReturns(request[e].func[CurNode(e)], CurNode(e),
                             CoercedInputs(e, CurNode(e))) :
          /\ returned' = [returned EXCEPT ![e][CurNode(e)] = r]
          /\ IF ValidReturn(request[e].func[CurNode(e)], r)
             THEN EndNode(e, "completed", r, r)
             ELSE EndNode(e, "error", Null, "missing key")
    /\ UNCHANGED <<editor, client, resolved, request, env, env0, lock, saved, order, viewResults,
                   worker, queue, accum, nReports, reported, raised, observed>>

\* a plausible slip: the exception escapes the node loop and ends the stream
PlainRaiseAborts(e) ==
    /\ pc[e] = "inline"
    /\ CurKind(e) = "plain"
    /\ Emit(e, Frame(NoNode, 0, "error", "exception"))
    /\ pc' = [pc EXCEPT ![e] = "restoring"]
    /\ raised' = [raised EXCEPT ![e] = @ \cup {CurNode(e)}]
    /\ UNCHANGED <<editor, client, resolved, returned, request, env, env0, lock, saved, order, idx, outputs, viewResults,
                   worker, queue, accum, nReports, reported, observed>>

\* A plain operation raises: the output is None.
PlainRaise(e) ==
    /\ pc[e] = "inline"
    /\ CurKind(e) = "plain"
    /\ CoercionOk(e, CurNode(e))
    /\ request[e].func[CurNode(e)].mayRaise
    /\ EndNode(e, "error", Null, "exception")
    /\ raised' = [raised EXCEPT ![e] = @ \cup {CurNode(e)}]
    /\ UNCHANGED <<editor, client, resolved, returned, request, env, env0, lock, saved, order, viewResults,
                   worker, queue, accum, nReports, reported, observed>>

\* a plausible slip: the conversion error escapes the node loop and ends the stream
CoerceFailAborts(e) ==
    /\ pc[e] = "inline"
    /\ CurKind(e) = "plain"
    /\ ~CoercionOk(e, CurNode(e))
    /\ Emit(e, Frame(NoNode, 0, "error", "coercion"))
    /\ pc' = [pc EXCEPT ![e] = "restoring"]
    /\ UNCHANGED <<editor, client, resolved, returned, request, env, env0, lock, saved, order,
                   idx, outputs, viewResults, worker, queue, accum, nReports, reported,
                   raised, observed>>

\* An input of a plain operation cannot be converted to its declared type: the
\* operation is not called, the node fails and its output is None.
CoerceFail(e) ==
    /\ pc[e] = "inline"
    /\ CurKind(e) = "plain"
    /\ ~CoercionOk(e, CurNode(e))
    /\ EndNode(e, "error", Null, "coercion")
    /\ UNCHANGED <<editor, client, resolved, returned, request, env, env0, lock, saved, order,
                   viewResults, worker, queue, accum, nReports, reported, raised,
                   observed>>

\* A view node stores the value of its input and completes with it.
ViewStore(e) ==
    /\ pc[e] = "inline"
    /\ CurKind(e) = "view"
    /\ LET v == ViewInput(e, CurNode(e))
       IN /\ EndNode(e, "completed", v, v)
          /\ viewResults' = [viewResults EXCEPT ![e] = (CurNode(e) :> v) @@ @]
    /\ UNCHANGED <<editor, client, resolved, returned, request, env, env0, lock, saved, order,
                   worker, queue, accum, nReports, reported, raised, observed>>

\* The body of a progress operation calls its reporter (on the worker thread).
WorkerProgress(e) ==
    /\ pc[e] = "pump"
    /\ worker[e] = "running"
    /\ CurKind(e) = "progress"
    /\ nReports[e] < MaxReports
    /\ \E call \in ProgressCalls(Len(reported[e][CurNode(e)]) + 1) :
          /\ reported' = [reported EXCEPT ![e][CurNode(e)] = Append(@, call)]
          /\ queue' = [queue EXCEPT ![e] = @ \o ReporterCall(call, TRUE)]
    /\ nReports' = [nReports EXCEPT ![e] = @ + 1]
    /\ UNCHANGED <<editor, client, resolved, returned, request, env, env0, lock, pc, saved, order, idx, outputs,
                   viewResults, stream, worker, accum, raised, observed>>

\* The body of a stream operation emits a chunk (on the worker thread).
WorkerEmit(e) ==
    /\ pc[e] = "pump"
    /\ worker[e] = "running"
    /\ CurKind(e) = "stream"
    /\ nReports[e] < MaxReports
    /\ \E chunk \in ChunkChoices(Len(reported[e][CurNode(e)]) + 1) :
          /\ reported' = [reported EXCEPT ![e][CurNode(e)] = Append(@, chunk)]
          /\ queue' = [queue EXCEPT ![e] = @ \o StreamEmit(chunk, TRUE)]
    /\ nReports' = [nReports EXCEPT ![e] = @ + 1]
    /\ UNCHANGED <<editor, client, resolved, returned, request, env, env0, lock, pc, saved, order, idx, outputs,
                   viewResults, stream, worker, accum, raised, observed>>

\* The body returns on the worker thread.
WorkerReturn(e) ==
    /\ pc[e] = "pump"
    /\ worker[e] = "running"
    /\ worker' = [worker EXCEPT ![e] = "returned"]
    /\ UNCHANGED <<editor, client, resolved, returned, request, env, env0, lock, pc, saved, order, idx, outputs,
                   viewResults, stream, queue, accum, nReports, reported, raised, observed>>

\* a plausible slip: the exception ends the thread without being kept, so the
\* executor never learns that the worker is finished
WorkerRaiseUnsignalled(e) ==
    /\ pc[e] = "pump"
    /\ worker[e] = "running"
    /\ worker' = [worker EXCEPT ![e] = "dead"]
    /\ raised' = [raised EXCEPT ![e] = @ \cup {CurNode(e)}]
    /\ UNCHANGED <<editor, client, resolved, returned, request, env, env0, lock, pc, saved, order, idx, outputs,
                   viewResults, stream, queue, accum, nReports, reported, observed>>

\* The body raises on the worker thread; the exception is kept for the executor.
WorkerRaise(e) ==
    /\ pc[e] = "pump"
    /\ worker[e] = "running"
    /\ worker' = [worker EXCEPT ![e] = "raised"]
    /\ raised' = [raised EXCEPT ![e] = @ \cup {CurNode(e)}]
    /\ UNCHANGED <<editor, client, resolved, returned, request, env, env0, lock, pc, saved, order, idx, outputs,
                   viewResults, stream, queue, accum, nReports, reported, observed>>

\* The executor takes one reporter event off the queue and yields it.
PumpForward(e) ==
    /\ pc[e] = "pump"
    /\ queue[e] # <<>>
    /\ LET ev == Head(queue[e])
       IN IF CurKind(e) = "progress"
          THEN /\ Emit(e, Frame(CurNode(e), idx[e], "progress", ev))
               /\ UNCHANGED accum
          ELSE /\ accum' = [accum EXCEPT ![e] = @ \o ev]
               /\ Emit(e, Frame(CurNode(e), idx[e], "streaming",
                                <<accum[e] \o ev, ev>>))
    /\ queue' = [queue EXCEPT ![e] = Tail(@)]
    /\ UNCHANGED <<editor, client, resolved, returned, request, env, env0, lock, pc, saved, order, idx, outputs,
                   viewResults, worker, nReports, reported, raised, observed>>

\* a plausible slip: after yielding the worker's error the executor falls through
\* and yields completed as well
PumpFinishFallsThrough(e) ==
    /\ pc[e] = "pump"
    /\ CanFinish(e)
    /\ IF worker[e] = "returned"
       THEN EndNode(e, "completed", OpaqueResult(CurNode(e)), OpaqueResult(CurNode(e)))
       ELSE /\ stream' = [stream EXCEPT ![e] =
                  @ \o <<Frame(CurNode(e), idx[e], "error", "exception"),
                         Frame(CurNode(e), idx[e], "completed", Null)>>]
            /\ outputs' = [outputs EXCEPT ![e][CurNode(e)] = Null]
            /\ idx' = [idx EXCEPT ![e] = @ + 1]
            /\ pc' = [pc EXCEPT ![e] = "run"]
    /\ worker' = [worker EXCEPT ![e] = "idle"]
    /\ queue' = [queue EXCEPT ![e] = <<>>]
    /\ UNCHANGED <<editor, client, resolved, returned, request, env, env0, lock, saved, order, viewResults,
                   accum, nReports, reported, raised, observed>>

\* The worker is joined and the node ends: completed with the return value,
\* or error with the worker's exception.
PumpFinish(e) ==
    /\ pc[e] = "pump"
    /\ CanFinish(e)
    /\ IF worker[e] = "returned"
       THEN EndNode(e, "completed", OpaqueResult(CurNode(e)), OpaqueResult(CurNode(e)))
       ELSE EndNode(e, "error", Null, "exception")
    /\ worker' = [worker EXCEPT ![e] = "idle"]
    /\ queue' = [queue EXCEPT ![e] = <<>>]
    /\ UNCHANGED <<editor, client, resolved, returned, request, env, env0, lock, saved, order, viewResults,
                   accum, nReports, reported, raised, observed>>

\* a plausible slip: done carries the whole output table, not the view results
EmitDoneAllOutputs(e) ==
    /\ pc[e] = "run"
    /\ idx[e] > Len(order[e])
    /\ Emit(e, Frame(NoNode, 0, "done", outputs[e]))
    /\ pc' = [pc EXCEPT ![e] = "restoring"]
    /\ UNCHANGED <<editor, client, resolved, returned, request, env, env0, lock, saved, order, idx, outputs,
                   viewResults, worker, queue, accum, nReports, reported, raised, observed>>

\* Every node has run: the terminal "done" frame carries the view results.
EmitDone(e) ==
    /\ pc[e] = "run"
    /\ idx[e] > Len(order[e])
    /\ Emit(e, Frame(NoNode, 0, "done", viewResults[e]))
    /\ pc' = [pc EXCEPT ![e] = "restoring"]
    /\ UNCHANGED <<editor, client, resolved, returned, request, env, env0, lock, saved, order, idx, outputs,
                   viewResults, worker, queue, accum, nReports, reported, raised, observed>>

\* The prior values are restored and the next execution may be admitted.
Restore(e) ==
    /\ pc[e] = "restoring"
    /\ env' = [k \in Keys |-> IF k \in EnvKeys(e)
                              THEN RestoredValue(saved[e][k], env[k])
                              ELSE env[k]]
    /\ lock' = 0
    /\ pc' = [pc EXCEPT ![e] = "finished"]
    /\ UNCHANGED <<editor, client, resolved, returned, request, env0, saved, order, idx, outputs, viewResults,
                   stream, worker, queue, accum, nReports, reported, raised, observed>>

\* ------------------------------------------------------- synchronous execute

\* execute_graph(): the same walk over the sorted nodes without status frames.
\* `fails` is the set of nodes whose operation raises.
SyncRoute(req, outs, ed) ==
    IF req.func[ed[1]].returns # {} /\ outs[ed[1]] # Null
    THEN outs[ed[1]][ed[3]]
    ELSE outs[ed[1]]

SyncViewInput(req, outs, v) ==
    LET inbound == SelectSeq(req.edges, LAMBDA ed : ed[2] = v)
    IN IF inbound = <<>> THEN Null ELSE SyncRoute(req, outs, inbound[Len(inbound)])

\* a plausible slip: a view node without a value gets no entry
SyncStoreViewElided(views, n, v) == IF v = Null THEN views ELSE (n :> v) @@ views

\* view_node_results[node_id] = value
SyncStoreView(views, n, v) == (n :> v) @@ views

RECURSIVE SyncLoop(_, _, _, _, _, _)
SyncLoop(req, fails, sorted, i, outs, views) ==
    IF i > Len(sorted) THEN views
    ELSE LET n == sorted[i]
         IN IF req.kind[n] = "view"
            THEN LET v == SyncViewInput(req, outs, n)
                 IN SyncLoop(req, fails, sorted, i + 1, [outs EXCEPT ![n] = v],
                             SyncStoreView(views, n, v))
            ELSE SyncLoop(req, fails, sorted, i + 1,
                          [outs EXCEPT ![n] = IF n \in fails THEN Null
                                              ELSE OpaqueResult(n)],
                          views)

\* the response of POST /execute: the view results, or a failure of the request
ExecuteGraph(req, fails) ==
    IF ~EdgesValid(req.nodes, req.edges) \/ HasCycle(req.nodes, req.edges)
    THEN [ok |-> FALSE, results |-> <<>>]
    ELSE [ok |-> TRUE,
          results |-> SyncLoop(req, fails, TopologicalSort(req.nodes, req.edges), 1,
                               [n \in NodeIds |-> Null], <<>>)]

\* --------------------------------------------------------------------- client

\* The response body is a sequence of atoms: the two halves of "data: ", the
\* two halves of a payload text, a comment, "\r" and "\n". A chunk boundary may
\* fall between any two atoms.
Atom(c, of) == [c |-> c, of |-> of]
NL == Atom("\n", 0)
CR == Atom("\r", 0)
DataPrefix == <<Atom("da", 0), Atom("ta: ", 0)>>
Comment == Atom(": ping", 0)

\* what JSON.parse yields for the payload texts of the model; "undefined" marks
\* a property the object does not have
Payload(id, json, status, node_id, results, error) ==
    [id |-> id, json |-> json, status |-> status, node_id |-> node_id,
     results |-> results, error |-> error]

PayloadTable ==
    << Payload("executing", "object", "executing", "n1", "undefined", "undefined"),
       Payload("node-error", "object", "error", "n1", "undefined", "boom"),
       Payload("global-error", "object", "error", "undefined", "undefined", "cycle"),
       Payload("bare-error", "object", "error", "undefined", "undefined", "undefined"),
       Payload("done", "object", "done", "undefined", "{n1: 5}", "undefined"),
       Payload("bare-done", "object", "done", "undefined", "undefined", "undefined"),
       Payload("empty-id-error", "object", "error", "", "undefined", "boom"),
       Payload("null", "null", "undefined", "undefined", "undefined", "undefined"),
       Payload("number", "number", "undefined", "undefined", "undefined", "undefined"),
       Payload("garbage", "bad", "undefined", "undefined", "undefined", "undefined") >>

PayloadText(k) == <<Atom("json1", k), Atom("json2", k)>>

\* JSON.parse(data): trailing white space is allowed, anything but a whole
\* payload text throws
JsonParse(data) ==
    LET core == IF data # <<>> /\ data[Len(data)] = CR
                THEN SubSeq(data, 1, Len(data) - 1) ELSE data
    IN IF /\ Len(core) = 2
          /\ core = PayloadText(core[1].of)
          /\ core[1].of \in DOMAIN PayloadTable
          /\ PayloadTable[core[1].of].json # "bad"
       THEN [ok |-> TRUE, value |-> PayloadTable[core[1].of]]
       ELSE [ok |-> FALSE, value |-> PayloadTable[Len(PayloadTable)]]

\* JavaScript truthiness of a property value
Truthy(x) == x \notin {"undefined", ""}

Call(fn, arg) == [fn |-> fn, arg |-> arg]

\* a plausible slip: every error frame is taken for a global error
HandleStatusErrorsGlobal(statusUpdate) ==
    IF statusUpdate.json = "null" THEN <<>>
    ELSE IF statusUpdate.status = "done"
    THEN <<Call("onComplete",
                IF Truthy(statusUpdate.results) THEN statusUpdate.results ELSE "{}")>>
    ELSE IF statusUpdate.status = "error"
    THEN <<Call("onError",
                IF Truthy(statusUpdate.error) THEN statusUpdate.error
                ELSE "Unknown error")>>
    ELSE <<Call("onStatus", statusUpdate.id)>>

\* the body of the try block: the callbacks made for one parsed payload. Reading
\* .status of null throws, which the catch swallows.
HandleStatus(statusUpdate) ==
    IF statusUpdate.json = "null" THEN <<>>
    ELSE IF statusUpdate.status = "done"
    THEN <<Call("onComplete",
                IF Truthy(statusUpdate.results) THEN statusUpdate.results ELSE "{}")>>
    ELSE IF statusUpdate.status = "error" /\ ~Truthy(statusUpdate.node_id)
    THEN <<Call("onError",
                IF Truthy(statusUpdate.error) THEN statusUpdate.error
                ELSE "Unknown error")>>
    ELSE <<Call("onStatus", statusUpdate.id)>>

StartsWithData(line) == Len(line) >= 2 /\ SubSeq(line, 1, 2) = DataPrefix

\* line.slice(6)
Slice6(line) == SubSeq(line, 3, Len(line))

\* the callbacks made for one line of the split buffer
HandleLine(line) ==
    IF ~StartsWithData(line) THEN <<>>
    ELSE LET parsed == JsonParse(Slice6(line))
         IN IF parsed.ok THEN HandleStatus(parsed.value) ELSE <<>>

\* buffer.split("\n")
RECURSIVE SplitFrom(_, _, _)
SplitFrom(buf, i, cur) ==
    IF i > Len(buf) THEN <<cur>>
    ELSE IF buf[i] = NL THEN <<cur>> \o SplitFrom(buf, i + 1, <<>>)
    ELSE SplitFrom(buf, i + 1, Append(cur, buf[i]))

Split(buf) == SplitFrom(buf, 1, <<>>)

\* the for loop over the complete lines; each call is tagged with the number of
\* the line that caused it
RECURSIVE HandleLines(_, _)
HandleLines(lines, seen) ==
    IF lines = <<>> THEN <<>>
    ELSE LET calls == HandleLine(Head(lines))
         IN [j \in 1..Len(calls) |->
                [fn |-> calls[j].fn, arg |-> calls[j].arg, line |-> seen + 1]]
            \o HandleLines(Tail(lines), seen + 1)

\* no response is being read
NoClient ==
    [state |-> "idle", lines |-> <<>>, rest |-> <<>>, buffer |-> <<>>, calls |-> <<>>,
     seen |-> 0, chunks |-> 0]

serverVars == <<request, env, env0, lock, pc, saved, order, idx, outputs, viewResults,
                stream, worker, queue, accum, nReports, reported, raised, observed,
                resolved, returned>>

\* fetch resolves with a status that is not ok: the handler throws and the catch
\* reports the message
ClientHttpError ==
    /\ client.state = "fetching"
    /\ client' = [client EXCEPT !.state = "failed",
                     !.calls = Append(@, [fn |-> "onError", arg |-> "HTTP error",
                                          line |-> 0])]
    /\ UNCHANGED <<serverVars, editor>>

\* fetch resolves with an ok response and a reader is obtained
ClientOpen ==
    /\ client.state = "fetching"
    /\ client' = [client EXCEPT !.state = "reading"]
    /\ UNCHANGED <<serverVars, editor>>

\* a plausible slip: the incomplete last piece is not kept for the next chunk
ClientReadDropsBuffer ==
    /\ client.state = "reading"
    /\ \E k \in 1..Len(client.rest) :
          LET value == SubSeq(client.rest, 1, k)
              lines == Split(client.buffer \o value)
              complete == SubSeq(lines, 1, Len(lines) - 1)
          IN client' = [client EXCEPT
                           !.rest = SubSeq(@, k + 1, Len(@)),
                           !.buffer = <<>>,
                           !.calls = @ \o HandleLines(complete, client.seen),
                           !.seen = @ + Len(complete),
                           !.chunks = @ + 1]
    /\ UNCHANGED <<serverVars, editor>>

\* one pass of the read loop with a chunk: append, split, keep the last piece
\* as the buffer, handle the complete lines
ClientRead ==
    /\ client.state = "reading"
    /\ \E k \in 1..Len(client.rest) :
          LET value == SubSeq(client.rest, 1, k)
              lines == Split(client.buffer \o value)
              complete == SubSeq(lines, 1, Len(lines) - 1)
          IN client' = [client EXCEPT
                           !.rest = SubSeq(@, k + 1, Len(@)),
                           !.buffer = lines[Len(lines)],
                           !.calls = @ \o HandleLines(complete, client.seen),
                           !.seen = @ + Len(complete),
                           !.chunks = @ + 1]
    /\ UNCHANGED <<serverVars, editor>>

\* the reader reports done: the loop ends, what is left in the buffer is dropped
ClientEnd ==
    /\ client.state = "reading"
    /\ client.rest = <<>>
    /\ client' = [client EXCEPT !.state = "closed"]
    /\ UNCHANGED <<serverVars, editor>>

\* a plausible slip: a rejected read ends the loop without a report
ClientFailSilent ==
    /\ client.state = "reading"
    /\ client' = [client EXCEPT !.state = "failed"]
    /\ UNCHANGED <<serverVars, editor>>

\* the connection breaks: read rejects and the catch reports the message
ClientFail ==
    /\ client.state = "reading"
    /\ client' = [client EXCEPT !.state = "failed",
                     !.calls = Append(@, [fn |-> "onError", arg |-> "Network error",
                                          line |-> 0])]
    /\ UNCHANGED <<serverVars, editor>>

\* a plausible slip: the catch handler reports every error, the abort included
ClientAbortReported ==
    /\ client.state \in {"fetching", "reading"}
    /\ client' = [client EXCEPT !.state = "aborted",
                     !.calls = Append(@, [fn |-> "onError", arg |-> "Network error",
                                          line |-> 0])]
    /\ UNCHANGED <<serverVars, editor>>

\* the caller runs the returned cleanup function: the AbortError is not reported
ClientAbort ==
    /\ client.state \in {"fetching", "reading"}
    /\ client' = [client EXCEPT !.state = "aborted"]
    /\ UNCHANGED <<serverVars, editor>>

\* --------------------------------------------------------------------- editor

\* A canvas node: id N stands for the string "node_N", a negative id for an id
\* of another form. inputCount is 0 where data.inputCount is not set.
CanvasNode(id, type, inputCount) ==
    [id |-> id, type |-> type, executionStatus |-> "undefined", value |-> "undefined",
     inputCount |-> inputCount, removedInputIndex |-> -1]

Status(node_id, status, info) == [node_id |-> node_id, status |-> status, info |-> info]

\* an execution started by executeGraph: its stream and where the server is
NoRun == [state |-> "none", order |-> <<>>, views |-> {}, pos |-> 0, phase |-> "idle",
          updates |-> 0, last |-> <<>>]

NoLoad == [present |-> FALSE, captured |-> 0, nodes |-> <<>>]

RunIds == 1..MaxRuns

\* the component after mounting, with an empty canvas; abortExecution 0 is null
NoEditor ==
    [executing |-> FALSE, statusHistory |-> <<>>, nodes |-> <<>>, edges |-> {},
     nodeId |-> 0, abortExecution |-> 0, runs |-> [k \in RunIds |-> NoRun],
     started |-> 0, pendingLoad |-> NoLoad, cleanups |-> {}, issued |-> {},
     reissued |-> FALSE, loads |-> 0, loadedOver |-> {}]

\* prev.findIndex(...): the first index that satisfies the test, 0 for -1
FindIndex(prev, Test(_)) ==
    IF \E i \in 1..Len(prev) : Test(prev[i])
    THEN CHOOSE i \in 1..Len(prev) : Test(prev[i]) /\ \A j \in 1..(i - 1) : ~Test(prev[j])
    ELSE 0

\* a plausible slip: every status is appended to the history
UpdateHistoryAppends(prev, status) == Append(prev, status)

\* the updater passed to setStatusHistory by the onStatus callback
UpdateHistory(prev, status) ==
    LET existingIndex ==
            FindIndex(prev, LAMBDA h : /\ h.node_id = status.node_id
                                       /\ h.status \in {"executing", "progress",
                                                        "streaming"})
    IN IF /\ existingIndex # 0
          /\ status.status \in {"progress", "streaming", "completed", "error"}
       THEN [prev EXCEPT ![existingIndex] = status]
       ELSE Append(prev, status)

\* the onStatus callback: the history and the node's visual status
OnStatus(ed, status) ==
    [ed EXCEPT
        !.statusHistory = UpdateHistory(@, status),
        !.nodes = [i \in 1..Len(@) |->
                      IF @[i].id = status.node_id
                      THEN [@[i] EXCEPT !.executionStatus = status.status]
                      ELSE @[i]]]

\* setAbortExecution(v): the cleanup of the effect that depends on
\* abortExecution will call the function the state held before
SetAbort(ed, v) ==
    [ed EXCEPT
        !.abortExecution = v,
        !.cleanups = IF ed.abortExecution # 0 /\ ed.abortExecution # v
                     THEN @ \cup {ed.abortExecution} ELSE @]

\* the onComplete callback; `views` are the ids that have a result
OnComplete(ed, views) ==
    SetAbort([ed EXCEPT
                 !.nodes = [i \in 1..Len(@) |->
                               IF @[i].type = "viewNode" /\ @[i].id \in views
                               THEN [@[i] EXCEPT !.value = "result"]
                               ELSE @[i]],
                 !.executing = FALSE], 0)

\* the onError callback
OnError(ed) == SetAbort([ed EXCEPT !.executing = FALSE], 0)

\* controller.abort() of run k: a stream that is still open delivers nothing more
AbortRun(ed, k) ==
    IF k # 0 /\ ed.runs[k].state = "live"
    THEN [ed EXCEPT !.runs[k].state = "aborted"]
    ELSE ed

SeqIds(nodes) == {nodes[i].id : i \in 1..Len(nodes)}

\* the pending effect cleanups run: React flushes them before it renders the
\* update made in a click or key handler
RECURSIVE AbortAll(_, _)
AbortAll(ed, hs) ==
    IF hs = {} THEN ed
    ELSE LET h == CHOOSE x \in hs : TRUE
         IN AbortAll(AbortRun(ed, h), hs \ {h})

FlushEffects(ed) == [AbortAll(ed, ed.cleanups) EXCEPT !.cleanups = {}]

\* a plausible slip: executeGraph does not look at `executing`
CanExecuteAlways == editor.started < MaxRuns

\* the Execute button is enabled and the shortcut passes its test
CanExecute == ~editor.executing /\ editor.started < MaxRuns

\* executeGraph, from the button or from Ctrl/Cmd+Enter
EdExecute ==
    /\ CanExecute
    /\ LET k == editor.started + 1
           cleared == [FlushEffects(editor) EXCEPT
                          !.executing = TRUE,
                          !.statusHistory = <<>>,
                          !.nodes = [i \in 1..Len(@) |->
                                        [@[i] EXCEPT !.executionStatus = "undefined"]],
                          !.started = k,
                          !.runs[k] = [NoRun EXCEPT
                                          !.state = "live",
                                          !.order = [i \in 1..Len(editor.nodes) |->
                                                        editor.nodes[i].id],
                                          !.views = {editor.nodes[i].id : i \in
                                                        {j \in 1..Len(editor.nodes) :
                                                            editor.nodes[j].type = "viewNode"}},
                                          !.pos = 1]]
       IN editor' = SetAbort(cleared, k)
    /\ UNCHANGED <<serverVars, client>>

\* the stream of run k delivers a frame to the onStatus callback
Deliver(k, status, run) ==
    editor' = OnStatus([editor EXCEPT !.runs[k] = run], status)

\* an executing frame for the next node of run k
RunExecuting(k) ==
    /\ editor.runs[k].state = "live"
    /\ editor.runs[k].phase = "idle"
    /\ editor.runs[k].pos <= Len(editor.runs[k].order)
    /\ LET run == editor.runs[k]
           status == Status(run.order[run.pos], "executing", 0)
       IN Deliver(k, status, [run EXCEPT !.phase = "running", !.updates = 0,
                                         !.last = Append(@, status)])
    /\ UNCHANGED <<serverVars, client>>

\* a progress or streaming frame for the node that is running
RunUpdate(k) ==
    /\ editor.runs[k].state = "live"
    /\ editor.runs[k].phase = "running"
    /\ editor.runs[k].updates < MaxUpdates
    /\ \E st \in {"progress", "streaming"} :
          LET run == editor.runs[k]
              status == Status(run.order[run.pos], st, run.updates + 1)
          IN Deliver(k, status, [run EXCEPT !.updates = @ + 1,
                                            !.last[Len(run.last)] = status])
    /\ UNCHANGED <<serverVars, client>>

\* the completed or error frame of the node that is running
RunEnd(k) ==
    /\ editor.runs[k].state = "live"
    /\ editor.runs[k].phase = "running"
    /\ \E st \in {"completed", "error"} :
          LET run == editor.runs[k]
              status == Status(run.order[run.pos], st, 0)
          IN Deliver(k, status, [run EXCEPT !.phase = "idle", !.pos = @ + 1,
                                            !.last[Len(run.last)] = status])
    /\ UNCHANGED <<serverVars, client>>

\* the done frame: onComplete
RunDone(k) ==
    /\ editor.runs[k].state = "live"
    /\ editor.runs[k].phase = "idle"
    /\ editor.runs[k].pos > Len(editor.runs[k].order)
    /\ editor' = OnComplete([editor EXCEPT !.runs[k].state = "ended"],
                            editor.runs[k].views)
    /\ UNCHANGED <<serverVars, client>>

\* a global error frame, an HTTP error or a network failure: onError
RunFail(k) ==
    /\ editor.runs[k].state = "live"
    /\ editor' = OnError([editor EXCEPT !.runs[k].state = "ended"])
    /\ UNCHANGED <<serverVars, client>>

\* the cleanup of the effect on abortExecution runs after a render
EdEffect ==
    /\ \E h \in editor.cleanups :
          editor' = [AbortRun(editor, h) EXCEPT !.cleanups = @ \ {h}]
    /\ UNCHANGED <<serverVars, client>>

\* workflow files with ids of every form
Workflows ==
    { <<>>,
      <<CanvasNode(0, "viewNode", 0)>>,
      <<CanvasNode(0, "functionNode", 0), CanvasNode(2, "listNode", 2)>>,
      <<CanvasNode(-1, "functionNode", 0), CanvasNode(1, "viewNode", 0)>>,
      <<CanvasNode(-1, "listNode", 1)>> }

\* handleFileInputChange: the change event; reader.onload is created in this
\* call and keeps the abortExecution of the render the handler belongs to
FileChosen(w) ==
    /\ ~editor.pendingLoad.present
    /\ editor.loads < MaxLoads
    /\ editor' = [editor EXCEPT
                     !.pendingLoad = [present |-> TRUE,
                                      captured |-> editor.abortExecution,
                                      nodes |-> w],
                     !.loads = @ + 1]
    /\ UNCHANGED <<serverVars, client>>

\* the largest N among the ids node_N of a file, -1 when there is none
MaxNodeId(nodes) ==
    IF \E i \in 1..Len(nodes) : nodes[i].id >= 0
    THEN CHOOSE m \in SeqIds(nodes) : \A x \in SeqIds(nodes) : x <= m
    ELSE -1

\* a plausible slip: the id counter is left alone by a load
LoadedNodeIdKept(nodes, nodeId) == nodeId

\* the id counter after a load
LoadedNodeId(nodes, nodeId) ==
    IF MaxNodeId(nodes) >= 0 THEN MaxNodeId(nodes) + 1 ELSE nodeId

\* if (abortExecution) abortExecution(), with the captured value
LoadAborts(ed, captured) == AbortRun(ed, captured)

\* reader.onload: the file has been read and is a valid workflow
FileLoaded ==
    /\ editor.pendingLoad.present
    /\ LET w == editor.pendingLoad.nodes
           aborted == LoadAborts(editor, editor.pendingLoad.captured)
           reset == SetAbort([aborted EXCEPT
                                 !.loadedOver = {k \in RunIds :
                                                    editor.runs[k].state = "live"},
                                 !.statusHistory = <<>>,
                                 !.executing = FALSE,
                                 !.nodeId = LoadedNodeId(w, @),
                                 !.nodes = w,
                                 !.edges = {},
                                 !.pendingLoad = NoLoad], 0)
       IN editor' = reset
    /\ UNCHANGED <<serverVars, client>>

NodeTypes == {"functionNode", "viewNode", "listNode"}

\* onDrop: a node of the dragged type gets the id getId() returns
Drop ==
    /\ Len(editor.nodes) < MaxCanvas
    /\ \E type \in NodeTypes :
          editor' = [editor EXCEPT
                        !.nodes = Append(@, CanvasNode(editor.nodeId, type,
                                                       IF type = "listNode" THEN 1 ELSE 0)),
                        !.nodeId = @ + 1,
                        !.issued = @ \cup {editor.nodeId},
                        !.reissued = @ \/ editor.nodeId \in editor.issued]
    /\ UNCHANGED <<serverVars, client>>

\* const inputCount = data.inputCount || 1
InputCount(node) == IF node.inputCount = 0 THEN 1 ELSE node.inputCount

\* handleAddInput of the list node at position i
AddInput(i) ==
    /\ editor.nodes[i].type = "listNode"
    /\ InputCount(editor.nodes[i]) < MaxInputs
    /\ editor' = [editor EXCEPT !.nodes[i].inputCount = InputCount(editor.nodes[i]) + 1]
    /\ UNCHANGED <<serverVars, client>>

\* handleRemoveInput(index) of the list node at position i: the count goes down
\* and the index is stored; the edges are not touched
RemoveInput(i, index) ==
    /\ editor.nodes[i].type = "listNode"
    /\ index \in 0..(InputCount(editor.nodes[i]) - 1)
    /\ InputCount(editor.nodes[i]) > 1
    /\ editor' = [editor EXCEPT
                     !.nodes[i].inputCount = InputCount(editor.nodes[i]) - 1,
                     !.nodes[i].removedInputIndex = index]
    /\ UNCHANGED <<serverVars, client>>

\* onConnect: the user draws an edge from node i to the handle input-k that
\* the list node at position j shows
Connect(i, j, k) ==
    /\ i # j
    /\ editor.nodes[j].type = "listNode"
    /\ k \in 0..(InputCount(editor.nodes[j]) - 1)
    /\ editor' = [editor EXCEPT
                     !.edges = @ \cup {[source |-> editor.nodes[i].id,
                                        target |-> editor.nodes[j].id,
                                        targetHandle |-> k]}]
    /\ UNCHANGED <<serverVars, client>>

\* ------------------------------------------------------------- specifications

\* every node names an opaque operation and carries no literals
OpaqueFuncs == [n \in NodeIds |-> OpaqueOp]
NoData == [n \in NodeIds |-> {}]

NoRequest ==
    [present |-> FALSE, nodes |-> <<>>, kind |-> [n \in NodeIds |-> "plain"],
     func |-> OpaqueFuncs, data |-> NoData, edges |-> <<>>, env_vars |-> NoEnvVars]

\* an edge is <<source, target, sourceHandle, targetHandle>>
PlainEdges == NodeIds \X NodeIds \X {"output"} \X {"input"}

EdgeLists ==
    UNION {[1..m -> PlainEdges] : m \in 0..MaxEdges}

\* graphs over the nodes 1..NumNodes, in request order
Requests ==
    {[present |-> TRUE, nodes |-> [i \in NodeIds |-> i], kind |-> kd,
      func |-> OpaqueFuncs, data |-> NoData, edges |-> ed, env_vars |-> NoEnvVars] :
        kd \in [NodeIds -> Kinds], ed \in EdgeLists}

InitState(reqs, hostEnv) ==
    /\ request = reqs
    /\ env = hostEnv
    /\ env0 = hostEnv
    /\ lock = 0
    /\ pc = [e \in Execs |-> IF reqs[e].present THEN "waiting" ELSE "none"]
    /\ saved = [e \in Execs |-> NoEnvVars]
    /\ order = [e \in Execs |-> <<>>]
    /\ idx = [e \in Execs |-> 0]
    /\ outputs = [e \in Execs |-> [n \in NodeIds |-> Null]]
    /\ viewResults = [e \in Execs |-> <<>>]
    /\ stream = [e \in Execs |-> <<>>]
    /\ worker = [e \in Execs |-> "idle"]
    /\ queue = [e \in Execs |-> <<>>]
    /\ accum = [e \in Execs |-> <<>>]
    /\ nReports = [e \in Execs |-> 0]
    /\ reported = [e \in Execs |-> [n \in NodeIds |-> <<>>]]
    /\ raised = [e \in Execs |-> {}]
    /\ observed = [e \in Execs |-> {}]
    /\ resolved = [e \in Execs |-> [n \in NodeIds |-> {}]]
    /\ returned = [e \in Execs |-> [n \in NodeIds |-> Unset]]

\* one streaming execution of any graph, without env_vars
Init ==
    \E r \in Requests :
        /\ InitState([e \in Execs |-> IF e = 1 THEN r ELSE NoRequest], NoEnvVars)
        /\ client = NoClient
        /\ editor = NoEditor

Next ==
    \E e \in Execs :
        \/ Admit(e)
        \/ ApplyEnv(e)
        \/ Sort(e)
        \/ Dispatch(e)
        \/ PlainReturn(e)
        \/ PlainRaise(e)
        \/ ViewStore(e)
        \/ WorkerProgress(e)
        \/ WorkerEmit(e)
        \/ WorkerReturn(e)
        \/ WorkerRaise(e)
        \/ PumpForward(e)
        \/ PumpFinish(e)
        \/ EmitDone(e)
        \/ Restore(e)

Spec == Init /\ [][Next]_vars


\* Two concurrent executions that may carry env_vars, each of a one-node graph
\* (the node alone, or the node with a self-loop), on any host environment.
EnvValue(e) == IF e = 1 THEN "v1" ELSE "v2"

EnvRequests(e) ==
    {[present |-> TRUE, nodes |-> <<1>>, kind |-> [n \in NodeIds |-> "plain"],
      func |-> OpaqueFuncs, data |-> NoData, edges |-> ed, env_vars |-> ev] :
        ed \in {<<>>, << <<1, 1, "output", "input">> >>},
        ev \in [Keys -> {Absent, EnvValue(e)}]}

InitEnv ==
    \E r1 \in EnvRequests(1), r2 \in EnvRequests(2),
       hostEnv \in [Keys -> {Absent, "host"}] :
        /\ InitState([e \in Execs |-> IF e = 1 THEN r1 ELSE r2], hostEnv)
        /\ client = NoClient
        /\ editor = NoEditor

NextEnv ==
    \E e \in Execs :
        \/ Admit(e)
        \/ ApplyEnv(e)
        \/ Sort(e)
        \/ Dispatch(e)
        \/ PlainReturn(e)
        \/ PlainRaise(e)
        \/ EmitDone(e)
        \/ Restore(e)

SpecEnv == InitEnv /\ [][NextEnv]_vars


\* One streaming execution of a graph of plain function nodes with data flow:
\* node 1 runs pair(), node 2 runs echo(a) and node 3 runs join(a, b); a comes
\* from an output key of node 1, from node 2, from node data or from the schema
\* default.  A request may also list only nodes 1 and 2 while an edge names 3.
DataEdges2 == {<<>>, << <<1, 2, "first", "a">> >>, << <<1, 2, "last", "a">> >>}
DataEdges3 ==
    {<<>>, << <<1, 3, "first", "a">> >>, << <<1, 3, "last", "a">> >>,
     << <<2, 3, "output", "a">> >>}
DataLiterals(p) == {{}, {[name |-> p, value |-> StrV("5")]},
                    {[name |-> p, value |-> StrV("abc")]}}

DataFuncs(t2, d2, t3) ==
    [n \in NodeIds |-> CASE n = 1 -> PairOp
                         [] n = 2 -> EchoOp(t2, d2)
                         [] n = 3 -> JoinOp(t3)
                         [] OTHER -> OpaqueOp]

DataRequests ==
    {[present |-> TRUE, nodes |-> <<1, 2, 3>>, kind |-> [n \in NodeIds |-> "plain"],
      func |-> DataFuncs(t2, d2, t3),
      data |-> [n \in NodeIds |-> CASE n = 2 -> l2 [] n = 3 -> l3 [] OTHER -> {}],
      edges |-> e2 \o e3, env_vars |-> NoEnvVars] :
        t2 \in Types, d2 \in {Unset, StrV("7")}, t3 \in {"int", "str"},
        l2 \in DataLiterals("a"), l3 \in DataLiterals("b"),
        e2 \in DataEdges2, e3 \in DataEdges3}

DanglingRequests ==
    {[present |-> TRUE, nodes |-> <<1, 2>>, kind |-> [n \in NodeIds |-> "plain"],
      func |-> DataFuncs("any", Unset, "str"), data |-> NoData,
      edges |-> ed, env_vars |-> NoEnvVars] :
        ed \in {<< <<1, 3, "first", "a">> >>, << <<3, 2, "output", "a">> >>,
                << <<1, 2, "first", "a">>, <<2, 3, "output", "a">> >>}}

InitData ==
    \E r \in DataRequests \cup DanglingRequests :
        /\ InitState([e \in Execs |-> IF e = 1 THEN r ELSE NoRequest], NoEnvVars)
        /\ client = NoClient
        /\ editor = NoEditor

NextData ==
    \E e \in Execs :
        \/ Admit(e)
        \/ ApplyEnv(e)
        \/ Sort(e)
        \/ Dispatch(e)
        \/ CoerceFail(e)
        \/ PlainReturn(e)
        \/ PlainRaise(e)
        \/ EmitDone(e)
        \/ Restore(e)

SpecData == InitData /\ [][NextData]_vars

\* One streaming execution of a graph with at most MaxLiveEdges edges, in which
\* the executor keeps running and every operation invocation returns or raises.
MaxLiveEdges == 1

LiveRequests ==
    {[present |-> TRUE, nodes |-> [i \in NodeIds |-> i], kind |-> kd,
      func |-> OpaqueFuncs, data |-> NoData, edges |-> ed, env_vars |-> NoEnvVars] :
        kd \in [NodeIds -> Kinds],
        ed \in UNION {[1..m -> PlainEdges] : m \in 0..MaxLiveEdges}}

InitLive ==
    \E r \in LiveRequests :
        /\ InitState([e \in Execs |-> IF e = 1 THEN r ELSE NoRequest], NoEnvVars)
        /\ client = NoClient
        /\ editor = NoEditor

\* the steps of the request handler and of the executor's generator
ExecutorStep(e) ==
    \/ Admit(e)
    \/ ApplyEnv(e)
    \/ Sort(e)
    \/ Dispatch(e)
    \/ ViewStore(e)
    \/ PumpForward(e)
    \/ PumpFinish(e)
    \/ EmitDone(e)
    \/ Restore(e)

\* an operation invocation ends
BodyEnds(e) ==
    \/ PlainReturn(e)
    \/ PlainRaise(e)
    \/ WorkerReturn(e)
    \/ WorkerRaise(e)

SpecLive ==
    /\ InitLive
    /\ [][Next]_vars
    /\ \A e \in Execs : WF_vars(ExecutorStep(e)) /\ WF_vars(BodyEnds(e))

\* the lines a response may hold: a data line for every payload, data lines
\* ending in "\r", a comment and the blank line that ends an SSE message
DataLine(k) == DataPrefix \o PayloadText(k)

ResponseLines ==
    {DataLine(k) : k \in DOMAIN PayloadTable}
        \cup {DataLine(k) \o <<CR>> : k \in {1, 2}}
        \cup {<<Comment>>, <<>>}

\* what may follow the last "\n": nothing, or a line that was never terminated
ResponseTails == {<<>>, DataLine(5), DataPrefix \o <<Atom("json1", 1)>>}

\* streams of complete records "data: <json>\n\n"
RecordStreams ==
    {<<DataLine(j), <<>>, DataLine(k), <<>> >> : j \in {1, 2, 5}, k \in {1, 3, 5}}

RECURSIVE Body(_)
Body(lines) == IF lines = <<>> THEN <<>> ELSE Head(lines) \o <<NL>> \o Body(Tail(lines))

InitClient ==
    /\ InitState([e \in Execs |-> NoRequest], NoEnvVars)
    /\ editor = NoEditor
    /\ \E lines \in UNION {[1..m -> ResponseLines] : m \in 0..MaxLines}
                        \cup RecordStreams :
          \E tail \in ResponseTails :
              client = [state |-> "fetching", lines |-> lines,
                        rest |-> Body(lines) \o tail, buffer |-> <<>>,
                        calls |-> <<>>, seen |-> 0, chunks |-> 0]

NextClient ==
    \/ ClientHttpError
    \/ ClientOpen
    \/ ClientRead
    \/ ClientEnd
    \/ ClientFail
    \/ ClientAbort

SpecClient == InitClient /\ [][NextClient]_vars

\* graphs of plain nodes with up to MaxSortEdges edges, parallel edges included
SortRequests ==
    {[present |-> TRUE, nodes |-> [i \in NodeIds |-> i],
      kind |-> [n \in NodeIds |-> "plain"],
      func |-> OpaqueFuncs, data |-> NoData, edges |-> ed, env_vars |-> NoEnvVars] :
        ed \in UNION {[1..m -> PlainEdges] : m \in 0..MaxSortEdges}}

InitSort ==
    \E r \in SortRequests :
        /\ InitState([e \in Execs |-> IF e = 1 THEN r ELSE NoRequest], NoEnvVars)
        /\ client = NoClient
        /\ editor = NoEditor

NextSort ==
    \E e \in Execs :
        \/ Admit(e)
        \/ ApplyEnv(e)
        \/ Sort(e)
        \/ Dispatch(e)
        \/ PlainReturn(e)
        \/ EmitDone(e)
        \/ Restore(e)

SpecSort == InitSort /\ [][NextSort]_vars

\* the promises of fetch and of reader.read() settle: a response or a chunk
\* arrives, the body ends, or the connection fails
ClientSettles ==
    \/ ClientHttpError
    \/ ClientOpen
    \/ ClientRead
    \/ ClientEnd
    \/ ClientFail

\* responses of record streams and of at most MaxLiveLines other lines
InitClientLive ==
    /\ InitState([e \in Execs |-> NoRequest], NoEnvVars)
    /\ editor = NoEditor
    /\ \E lines \in UNION {[1..m -> ResponseLines] : m \in 0..MaxLiveLines}
                        \cup RecordStreams :
          \E tail \in ResponseTails :
              client = [state |-> "fetching", lines |-> lines,
                        rest |-> Body(lines) \o tail, buffer |-> <<>>,
                        calls |-> <<>>, seen |-> 0, chunks |-> 0]

SpecClientLive == InitClientLive /\ [][NextClient]_vars /\ WF_vars(ClientSettles)

\* an editor whose canvas holds a function node and a view node
InitEditor ==
    /\ InitState([e \in Execs |-> NoRequest], NoEnvVars)
    /\ client = NoClient
    /\ editor = [NoEditor EXCEPT
                    !.nodes = <<CanvasNode(0, "functionNode", 0),
                                CanvasNode(1, "viewNode", 0)>>,
                    !.nodeId = 2, !.issued = {0, 1}]

\* executions without workflow loads
NextHistory ==
    \/ EdExecute
    \/ EdEffect
    \/ \E k \in RunIds :
          \/ RunExecuting(k)
          \/ RunUpdate(k)
          \/ RunEnd(k)
          \/ RunDone(k)
          \/ RunFail(k)

SpecHistory == InitEditor /\ [][NextHistory]_vars

\* a file whose view node has the id of the view node on the canvas
EditorWorkflows == {<<CanvasNode(1, "viewNode", 0)>>}

\* executions and workflow loads
NextEditor ==
    \/ NextHistory
    \/ \E w \in EditorWorkflows : FileChosen(w)
    \/ FileLoaded

SpecEditor == InitEditor /\ [][NextEditor]_vars

\* an empty canvas
InitIds ==
    /\ InitState([e \in Execs |-> NoRequest], NoEnvVars)
    /\ client = NoClient
    /\ editor = NoEditor

\* drops and workflow loads
NextIds ==
    \/ Drop
    \/ \E w \in Workflows : FileChosen(w)
    \/ FileLoaded

SpecIds == InitIds /\ [][NextIds]_vars

\* a canvas of two function nodes and a list node
InitList ==
    /\ InitState([e \in Execs |-> NoRequest], NoEnvVars)
    /\ client = NoClient
    /\ editor = [NoEditor EXCEPT
                    !.nodes = <<CanvasNode(0, "functionNode", 0),
                                CanvasNode(1, "functionNode", 0),
                                CanvasNode(2, "listNode", 1)>>,
                    !.nodeId = 3, !.issued = {0, 1, 2}]

\* editing the inputs of list nodes
NextList ==
    \/ \E i \in 1..Len(editor.nodes) : AddInput(i)
    \/ \E i \in 1..Len(editor.nodes), index \in 0..(MaxInputs - 1) : RemoveInput(i, index)
    \/ \E i, j \in 1..Len(editor.nodes), k \in 0..(MaxInputs - 1) : Connect(i, j, k)

SpecList == InitList /\ [][NextList]_vars

\* --------------------------------------------------------------- properties

Pos(e) == 1..Len(stream[e])
Ended(e) == pc[e] \in {"restoring", "finished"}
IsNodeTerminal(f) == f.node # NoNode /\ f.status \in {"completed", "error"}
EdgeSet(edges) == {edges[i] : i \in 1..Len(edges)}

RECURSIVE Closure(_, _, _)
Closure(S, E, k) ==
    IF k = 0 THEN S
    ELSE Closure(S \cup {p[2] : p \in {q \in E : q[1] \in S}}, E, k - 1)

\* n lies on a directed cycle of E
OnCycle(n, E) ==
    n \in Closure({p[2] : p \in {q \in E : q[1] = n}}, E, NumNodes)

ContainsCycle(edges) == \E n \in NodeIds : OnCycle(n, EdgeSet(edges))

C2_SingleTerminal ==
    \A e \in Execs :
        /\ \A i \in Pos(e) : IsTerminalFrame(stream[e][i]) => i = Len(stream[e])
        /\ Ended(e) => /\ stream[e] # <<>>
                       /\ IsTerminalFrame(stream[e][Len(stream[e])])

\* C2 witness: an ended stream whose last frame is done, after node frames
\* including a per-node error.
C2_Witness ==
    /\ pc[1] = "finished"
    /\ stream[1][Len(stream[1])].status = "done"
    /\ \E i \in Pos(1) : stream[1][i].node # NoNode /\ stream[1][i].status = "error"

\* C3: when the graph contains a directed cycle, the stream holds no node frame
\* and is exactly one global error frame once it has ended.
C3_CycleRejected ==
    \A e \in Execs :
        (request[e].present /\ ContainsCycle(request[e].edges)) =>
            /\ Len(stream[e]) <= 1
            /\ \A i \in Pos(e) : stream[e][i].node = NoNode
                                 /\ stream[e][i].status = "error"
            /\ Ended(e) => Len(stream[e]) = 1

\* C3 witness: an ended execution of a graph with a cycle and a node that is
\* neither on a cycle nor reachable from one.
C3_Witness ==
    /\ pc[1] = "finished"
    /\ ContainsCycle(request[1].edges)
    /\ \E n \in NodeIds :
          /\ ~OnCycle(n, EdgeSet(request[1].edges))
          /\ \A k \in 1..Len(request[1].edges) : request[1].edges[k][2] # n
    /\ Len(stream[1]) = 1


FramesOf(e, n) == SelectSeq(stream[e], LAMBDA f : f.node = n)
HasTerminal(e, n) == \E i \in Pos(e) : stream[e][i].node = n /\ IsNodeTerminal(stream[e][i])
EndedDone(e) == Ended(e) /\ stream[e][Len(stream[e])].status = "done"
FunctionKinds == {"plain", "progress", "stream"}

\* C4: a node whose operation raised gets a per-node error frame (never
\* completed) and a null output, the failure never becomes a global error, and
\* the execution still runs every node in order and ends with done.
C4_FailureIsolated ==
    \A e \in Execs :
        /\ \A n \in raised[e] :
              LET S == FramesOf(e, n)
              IN /\ \A i \in 1..Len(S) : S[i].status # "completed"
                 /\ (pc[e] \notin {"inline", "pump"} \/ CurNode(e) # n) =>
                       /\ S[Len(S)].status = "error"
                       /\ outputs[e][n] = Null
        /\ raised[e] # {} =>
              \A i \in Pos(e) : ~(stream[e][i].node = NoNode /\ stream[e][i].status = "error")
        /\ (Ended(e) /\ raised[e] # {}) =>
              /\ stream[e][Len(stream[e])].status = "done"
              /\ SelectSeq(stream[e], LAMBDA f : f.status = "executing")
                    = [k \in 1..Len(order[e]) |->
                          Frame(order[e][k], k, "executing", "inputs")]
              /\ \A n \in NodeIds : HasTerminal(e, n)

\* C4 witness: an ended execution in which a plain operation raised and a
\* worker operation raised, and a node that ran after a failure completed.
C4_Witness ==
    /\ pc[1] = "finished"
    /\ \E n \in raised[1], m \in raised[1] :
          /\ request[1].kind[n] = "plain"
          /\ request[1].kind[m] \in WorkerKinds
    /\ \E i \in Pos(1), j \in Pos(1) :
          /\ i < j
          /\ stream[1][i].node # NoNode /\ stream[1][i].status = "error"
          /\ stream[1][j].status = "completed"

RECURSIVE Flatten(_)
Flatten(ss) == IF ss = <<>> THEN <<>> ELSE Head(ss) \o Flatten(Tail(ss))

\* the data of the frames of node n with the given status, in stream order
DataOf(e, n, status) ==
    LET S == SelectSeq(stream[e], LAMBDA f : f.node = n /\ f.status = status)
    IN [i \in 1..Len(S) |-> S[i].data]

IsPrefix(s, t) == Len(s) <= Len(t) /\ \A i \in 1..Len(s) : s[i] = t[i]

\* what the reporter of progress node n was told, as (progress, message) pairs
ProgressPassed(e, n) ==
    Flatten([k \in 1..Len(reported[e][n]) |-> ReporterCall(reported[e][n][k], TRUE)])

NonEmptyChunks(e, n) == SelectSeq(reported[e][n], LAMBDA c : c # <<>>)

InWindow(e) == pc[e] \in {"sorting", "run", "inline", "pump", "restoring"}
NodeRunning(e) == pc[e] \in {"inline", "pump"}
\* the environment an execution's nodes are meant to see
OwnEnv(e) ==
    [k \in Keys |-> IF k \in EnvKeys(e) THEN request[e].env_vars[k] ELSE env0[k]]

\* C8: whenever no execution is in its env window, in particular after an
\* execution has terminated, the process environment is the host environment
\* again: prior values are back and variables that did not exist are absent.
C8_EnvRestored ==
    (\A e \in Execs : ~InWindow(e)) => env = env0

\* C8 witness: both executions have terminated, one by the cycle error and one
\* with a per-node error and done; the first overrode a variable that existed
\* and one that did not.
C8_Witness ==
    /\ pc[1] = "finished" /\ pc[2] = "finished"
    /\ EnvKeys(1) = Keys /\ EnvKeys(2) # {}
    /\ env0["K1"] = Absent /\ env0["K2"] # Absent
    /\ stream[1][1].node = NoNode /\ stream[1][1].status = "error"
    /\ stream[2][Len(stream[2])].status = "done"
    /\ raised[2] # {}

C10_OneNodeAtATime ==
    \A e \in Execs : \A j \in Pos(e) :
        stream[e][j].status = "executing" =>
            \A i \in 1..(j - 1) :
                stream[e][i].status = "executing" =>
                    \E t \in (i + 1)..(j - 1) :
                        /\ stream[e][t].node = stream[e][i].node
                        /\ IsNodeTerminal(stream[e][t])

\* C10 witness: a graph without edges whose first node is a worker node that
\* emitted intermediate frames, with a later node dispatched after it ended.
C10_Witness ==
    /\ request[1].edges = <<>>
    /\ Len(stream[1]) >= 4
    /\ stream[1][1].status = "executing"
    /\ stream[1][2].status \in {"progress", "streaming"}
    /\ \E j \in Pos(1) : stream[1][j].status = "executing" /\ stream[1][j].node # stream[1][1].node


\* the sources of the edges into node v
Upstream(e, v) ==
    {request[e].edges[k][1] : k \in {i \in 1..Len(request[e].edges) :
                                        request[e].edges[i][2] = v}}
ViewNodes(e) ==
    {request[e].nodes[i] : i \in {j \in 1..Len(request[e].nodes) :
                                     request[e].kind[request[e].nodes[j]] = "view"}}
DoneResults(e) == stream[e][Len(stream[e])].data

ExecutingFrames(e) == SelectSeq(stream[e], LAMBDA f : f.status = "executing")

\* C17: the k-th node dispatched carries node_number k, every frame of a node
\* carries the number of its executing frame, and no node is dispatched twice.
C17_NodeNumber ==
    \A e \in Execs :
        LET X == ExecutingFrames(e)
        IN /\ \A k \in 1..Len(X) : X[k].num = k /\ X[k].node = order[e][k]
           /\ \A k \in 1..Len(X), m \in 1..Len(X) :
                 X[k].node = X[m].node => k = m
           /\ \A i \in Pos(e) :
                 stream[e][i].node # NoNode =>
                    \E k \in 1..Len(X) : /\ X[k].node = stream[e][i].node
                                          /\ X[k].num = stream[e][i].num

\* C17 witness: three nodes were dispatched in an order that differs from the
\* request order, the second being a worker node with an intermediate frame.
C17_Witness ==
    /\ Len(ExecutingFrames(1)) = 3
    /\ ExecutingFrames(1)[1].node # 1
    /\ \E i \in Pos(1) : /\ stream[1][i].num = 2
                           /\ stream[1][i].status \in {"progress", "streaming"}


\* done has been emitted and every node of the graph was dispatched once and has
\* its completed or error frame
DoneAll(e) ==
    /\ stream[e] # <<>>
    /\ stream[e][Len(stream[e])].status = "done"
    /\ \A n \in NodeIds :
          /\ Len(SelectSeq(stream[e], LAMBDA f : f.node = n /\ f.status = "executing")) = 1
          /\ Len(SelectSeq(stream[e], LAMBDA f : f.node = n /\ IsNodeTerminal(f))) = 1

NodesOf(e) == {request[e].nodes[i] : i \in 1..Len(request[e].nodes)}
Dispatched(e, n) == \E i \in Pos(e) : stream[e][i].node = n
LastFrameOf(e, n) == FramesOf(e, n)[Len(FramesOf(e, n))]
NoGlobalError(e) ==
    \A i \in Pos(e) : ~(stream[e][i].node = NoNode /\ stream[e][i].status = "error")
\* the node failed on its own: error frame, null output, and the execution goes on
\* to run every node and end with done
FailedAlone(e, n) ==
    /\ LastFrameOf(e, n).status = "error"
    /\ \A i \in 1..Len(FramesOf(e, n)) : FramesOf(e, n)[i].status # "completed"
    /\ outputs[e][n] = Null
    /\ NoGlobalError(e)
    /\ Ended(e) => /\ stream[e][Len(stream[e])].status = "done"
                   /\ \A m \in NodesOf(e) : HasTerminal(e, m)

\* C12: over an edge whose source declares output keys and has completed, the
\* target's parameter receives the value the source returned under the edge's
\* sourceHandle, not the whole mapping.
C12_KeyRouting ==
    \A e \in Execs : \A k \in 1..Len(request[e].edges) :
        LET ed == request[e].edges[k]
        IN (/\ Dispatched(e, ed[2])
            /\ request[e].func[ed[1]].returns # {}
            /\ HasTerminal(e, ed[1])
            /\ LastFrameOf(e, ed[1]).status = "completed") =>
               ArgValue(resolved[e][ed[2]], ed[4]) = returned[e][ed[1]][ed[3]]

\* C12 witness: two consumers of the same producer received the values of
\* different keys.
C12_Witness ==
    /\ pc[1] = "finished"
    /\ request[1].edges = << <<1, 2, "first", "a">>, <<1, 3, "last", "a">> >>
    /\ resolved[1][2] # {} /\ resolved[1][3] # {}
    /\ ArgValue(resolved[1][2], "a") = returned[1][1]["first"]
    /\ ArgValue(resolved[1][3], "a") = returned[1][1]["last"]
    /\ ArgValue(resolved[1][2], "a") # ArgValue(resolved[1][3], "a")

\* C13: a node whose operation declares output keys and returned a mapping that
\* lacks one of them ends with an error frame and a null output, and the
\* execution continues to done.
C13_MissingKey ==
    \A e \in Execs : \A n \in NodeIds :
        (/\ returned[e][n] # Unset
         /\ \E key \in request[e].func[n].returns : key \notin DOMAIN returned[e][n]) =>
            FailedAlone(e, n)

\* C13 witness: the producer returned a mapping without the key "last", and a
\* node that ran after it completed before done.
C13_Witness ==
    /\ pc[1] = "finished"
    /\ returned[1][1] # Unset
    /\ "last" \notin DOMAIN returned[1][1]
    /\ \E m \in {2, 3} : LastFrameOf(1, m).status = "completed"
    /\ stream[1][Len(stream[1])].status = "done"

\* the value an edge delivers, read off the source's recorded output
Delivered(e, ed) ==
    IF request[e].func[ed[1]].returns # {} /\ outputs[e][ed[1]] # Null
    THEN outputs[e][ed[1]][ed[3]]
    ELSE outputs[e][ed[1]]

\* C14: a dispatched node's input for a parameter is the upstream output when
\* an edge enters the parameter, whatever node data holds; else the literal of
\* node data; else the schema default.
C14_InputResolution ==
    \A e \in Execs : \A n \in NodeIds :
        Dispatched(e, n) =>
            \A prm \in request[e].func[n].params :
                LET got == ArgValue(resolved[e][n], prm.name)
                    into == {k \in 1..Len(request[e].edges) :
                                /\ request[e].edges[k][2] = n
                                /\ request[e].edges[k][4] = prm.name}
                    lits == {d \in request[e].data[n] : d.name = prm.name}
                IN IF into # {}
                   THEN \E k \in into : got = Delivered(e, request[e].edges[k])
                   ELSE IF lits # {}
                   THEN \E d \in lits : got = d.value
                   ELSE got = prm.default

\* C14 witness: one node took its input from an edge although node data holds
\* a different literal, and another node took one parameter from node data and
\* would have had a schema default for it.
C14_Witness ==
    /\ pc[1] = "finished"
    /\ Inbound(1, 2, "a") # <<>>
    /\ request[1].data[2] # {}
    /\ \A d \in request[1].data[2] : d.value # ArgValue(resolved[1][2], "a")
    /\ request[1].data[3] # {}
    /\ resolved[1][3] # {}
    /\ ArgValue(resolved[1][3], "b") = StrV("5")
    /\ request[1].func[2].params # {} /\ resolved[1][2] # {}

\* some gathered input of node n cannot be converted to its declared type
CannotCoerce(e, n) ==
    \E prm \in request[e].func[n].params :
        /\ ArgValue(resolved[e][n], prm.name) # Unset
        /\ ~Coerce(prm.type, ArgValue(resolved[e][n], prm.name)).ok

TypeTags == {"int", "float", "str", "bool", "list", "dict"}

CallsFor(i) == SelectSeq(client.calls, LAMBDA c : c.line = i)
ParsesAsJson(line) == StartsWithData(line) /\ JsonParse(Slice6(line)).ok
Parsed(line) == JsonParse(Slice6(line)).value
LineCalls == {j \in 1..Len(client.calls) : client.calls[j].line > 0}

\* C20 as stated: every handled data line whose payload parses as JSON causes
\* exactly one callback: onComplete for done, onError for an error without
\* node_id, onStatus otherwise.
C20_AsStated ==
    \A i \in 1..client.seen :
        ParsesAsJson(client.lines[i]) =>
            /\ Len(CallsFor(i)) = 1
            /\ CallsFor(i)[1].fn =
                  IF Parsed(client.lines[i]).status = "done" THEN "onComplete"
                  ELSE IF /\ Parsed(client.lines[i]).status = "error"
                          /\ Parsed(client.lines[i]).node_id = "undefined"
                       THEN "onError"
                       ELSE "onStatus"

\* C20: every handled data line whose payload parses as JSON to something other
\* than null causes exactly one callback, in arrival order: onComplete(results
\* or {}) for done, onError for an error whose node_id is missing or empty,
\* onStatus otherwise; a null payload and every other line cause none. An error
\* frame with a non-empty node_id goes to onStatus.
C20_Callbacks ==
    /\ client.seen <= Len(client.lines)
    /\ client.state = "closed" => client.seen = Len(client.lines)
    /\ \A j, k \in LineCalls :
          j < k => /\ client.calls[j].line < client.calls[k].line
                   /\ client.calls[k].line <= client.seen
    /\ \A i \in 1..client.seen :
          LET line == client.lines[i]
              p == Parsed(line)
          IN IF ParsesAsJson(line) /\ p.json # "null"
             THEN /\ Len(CallsFor(i)) = 1
                  /\ CallsFor(i)[1].fn =
                        IF p.status = "done" THEN "onComplete"
                        ELSE IF p.status = "error" /\ p.node_id \in {"undefined", ""}
                             THEN "onError"
                             ELSE "onStatus"
                  /\ CallsFor(i)[1].arg =
                        IF p.status = "done"
                        THEN (IF p.results = "undefined" THEN "{}" ELSE p.results)
                        ELSE IF p.status = "error" /\ p.node_id \in {"undefined", ""}
                             THEN (IF p.error = "undefined" THEN "Unknown error"
                                   ELSE p.error)
                             ELSE p.id
             ELSE CallsFor(i) = <<>>

\* C20 witness: a response of a per-node error frame and a done frame was read
\* to its end; the first went to onStatus, the second to onComplete.
C20_Witness ==
    /\ client.state = "closed"
    /\ client.lines = <<DataLine(2), DataLine(5)>>
    /\ client.calls = << [fn |-> "onStatus", arg |-> "node-error", line |-> 1],
                         [fn |-> "onComplete", arg |-> "{n1: 5}", line |-> 2] >>


\* the callbacks made when the whole body arrives as one chunk
OneChunkCalls(lines) ==
    LET pieces == Split(Body(lines))
    IN HandleLines(SubSeq(pieces, 1, Len(pieces) - 1), 0)

\* the callbacks made by the read loop, without those of the catch handler
LoopCalls == SelectSeq(client.calls, LAMBDA c : c.line > 0)

\* C21: however the body is cut into chunks, the callbacks made for the lines
\* received so far are those a single chunk would cause, in the same order, and
\* once the body is read to its end they are those of the whole body: nothing is
\* dropped, repeated or reordered.
C21_ChunkIndependence ==
    /\ LoopCalls = OneChunkCalls(SubSeq(client.lines, 1, client.seen))
    /\ client.state = "closed" => LoopCalls = OneChunkCalls(client.lines)

\* C21 witness: a stream of two records was read to its end one atom at a time,
\* so that chunks ended inside the prefix and inside both payloads, and both
\* callbacks were made.
C21_Witness ==
    /\ client.state = "closed"
    /\ client.lines = <<DataLine(1), <<>>, DataLine(5), <<>> >>
    /\ client.chunks = Len(Body(client.lines))
    /\ client.calls = << [fn |-> "onStatus", arg |-> "executing", line |-> 1],
                         [fn |-> "onComplete", arg |-> "{n1: 5}", line |-> 3] >>


\* the callbacks made by the catch handler
CatchCalls == SelectSeq(client.calls, LAMBDA c : c.line = 0)

\* C22: once the cleanup function has aborted the request, no callback has come
\* from the catch handler: the abort is not reported through onError, and the
\* lines that were not yet read cause no callback either.
C22_AbortSilent ==
    client.state = "aborted" =>
        /\ CatchCalls = <<>>
        /\ LoopCalls = client.calls
        /\ LoopCalls = OneChunkCalls(SubSeq(client.lines, 1, client.seen))

\* C22 witness: the request was aborted after the first line had been handled
\* and while the second was still to come.
C22_Witness ==
    /\ client.state = "aborted"
    /\ client.lines = <<DataLine(1), DataLine(5)>>
    /\ client.seen = 1
    /\ client.rest # <<>>
    /\ client.calls = <<[fn |-> "onStatus", arg |-> "executing", line |-> 1]>>


IsFinal(c) == c.fn \in {"onComplete", "onError"}
FinalCalls == SelectSeq(client.calls, IsFinal)
\* the lines of the response that cause onComplete or onError
FinalLines(lines) ==
    {i \in 1..Len(lines) : HandleLine(lines[i]) # <<>> /\ IsFinal(HandleLine(lines[i])[1])}
CallbackLines(lines) == {i \in 1..Len(lines) : HandleLine(lines[i]) # <<>>}
\* exactly one done or global error frame, and no frame after it
EndsWithOneFinal(lines) ==
    \E i \in 1..Len(lines) :
        /\ FinalLines(lines) = {i}
        /\ \A j \in CallbackLines(lines) : j <= i
NoStatusAfterFinal ==
    \A j, k \in 1..Len(client.calls) :
        (j < k /\ IsFinal(client.calls[j])) => client.calls[k].fn # "onStatus"

\* C26 as stated: when a call that was not aborted has ended, exactly one of
\* onComplete and onError has been invoked, once, and no onStatus after it.
C26_AsStated ==
    client.state \in {"closed", "failed"} =>
        /\ Len(FinalCalls) = 1
        /\ NoStatusAfterFinal

C26_AtEnd ==
    /\ client.state = "failed" =>
          /\ Len(CatchCalls) = 1
          /\ client.calls[Len(client.calls)] = CatchCalls[1]
          /\ Len(FinalCalls) =
                1 + Cardinality(FinalLines(SubSeq(client.lines, 1, client.seen)))
    /\ client.state = "closed" =>
          /\ CatchCalls = <<>>
          /\ Len(FinalCalls) = Cardinality(FinalLines(client.lines))
          /\ EndsWithOneFinal(client.lines) =>
                /\ Len(FinalCalls) = 1
                /\ IsFinal(client.calls[Len(client.calls)])
                /\ NoStatusAfterFinal

\* C26: every call that is not aborted ends, provided the pending fetch or read
\* settles. An HTTP error status or a network failure invokes onError once, as
\* the last callback, in addition to one callback per done or global error frame
\* handled before it. A body read to its end invokes onComplete or onError once
\* per done or global error frame it holds: exactly one, with no onStatus after
\* it, when the body holds one such frame and it is the last frame; none when the
\* body holds no such frame.
C26_FinalCallback ==
    /\ []C26_AtEnd
    /\ (client.state = "fetching") ~> (client.state \in {"closed", "failed", "aborted"})

\* C26 witness: the connection failed after the first frame had gone to
\* onStatus, and onError was invoked once.
C26_Witness ==
    /\ client.state = "failed"
    /\ client.lines = <<DataLine(1), <<>>, DataLine(5), <<>> >>
    /\ client.calls = << [fn |-> "onStatus", arg |-> "executing", line |-> 1],
                         [fn |-> "onError", arg |-> "Network error", line |-> 0] >>


\* the position of node n in a sequence, 0 when it is not there
IndexOf(n, seq) ==
    IF \E i \in 1..Len(seq) : seq[i] = n
    THEN CHOOSE i \in 1..Len(seq) : seq[i] = n
    ELSE 0

\* C24: the sort emits fewer nodes than the graph holds exactly when the graph
\* has a directed cycle; for an acyclic graph, parallel edges included, the
\* emitted order holds every node exactly once, places the source of every edge
\* before its target, and is the order the execution uses.
C24_KahnSort ==
    \A e \in Execs :
        request[e].present =>
            LET nodes == request[e].nodes
                edges == request[e].edges
                sorted == TopologicalSort(nodes, edges)
            IN /\ Len(sorted) <= Len(nodes)
               /\ (Len(sorted) < Len(nodes)) <=> ContainsCycle(edges)
               /\ ~ContainsCycle(edges) =>
                     /\ Len(sorted) = Len(nodes)
                     /\ \A n \in NodesOf(e) :
                           Cardinality({i \in 1..Len(sorted) : sorted[i] = n}) = 1
                     /\ \A k \in 1..Len(edges) :
                           IndexOf(edges[k][1], sorted) < IndexOf(edges[k][2], sorted)
                     /\ pc[e] \in {"run", "inline", "finished"} => order[e] = sorted
               /\ (ContainsCycle(edges) /\ pc[e] \in {"restoring", "finished"}) =>
                     /\ order[e] = <<>>
                     /\ Len(stream[e]) = 1
                     /\ stream[e][1].status = "error"

\* C24 witness: an acyclic graph with two parallel edges 2 -> 1 and an edge
\* 3 -> 2 was sorted to <<3, 2, 1>> and run.
C24_Witness ==
    /\ pc[1] = "finished"
    /\ request[1].edges = << <<2, 1, "output", "input">>, <<3, 2, "output", "input">>,
                             <<2, 1, "output", "input">> >>
    /\ order[1] = <<3, 2, 1>>


DispatchedCount(run) == IF run.phase = "running" THEN run.pos ELSE run.pos - 1

\* C23: while executions follow one another without a workflow load, the status
\* history holds exactly one entry per node the current execution has
\* dispatched, in dispatch order, each being the latest status received for
\* that node.
C23_StatusHistory ==
    editor.started > 0 =>
        LET run == editor.runs[editor.started]
            n == DispatchedCount(run)
        IN /\ Len(editor.statusHistory) = n
           /\ \A i \in 1..n : editor.statusHistory[i].node_id = run.order[i]
           /\ editor.statusHistory = run.last

\* C23 witness: the first node has completed after a progress frame and the
\* second shows its streaming frame; the history has two entries.
C23_Witness ==
    /\ editor.started = 1
    /\ editor.runs[1].updates = 1
    /\ editor.statusHistory = <<Status(0, "completed", 0), Status(1, "streaming", 1)>>


LiveRuns == {k \in RunIds : editor.runs[k].state = "live"}

\* C27: an execution that is in flight and has not been reset by a workflow
\* load keeps `executing` true, so that executeGraph cannot be started from the
\* button or the shortcut; at most one execution started from the editor is in
\* flight at any time, and it is the latest one.
C27_SingleExecution ==
    /\ Cardinality(LiveRuns) <= 1
    /\ \A k \in LiveRuns :
          /\ k = editor.started
          /\ k \notin editor.loadedOver => editor.executing /\ editor.abortExecution = k
    /\ editor.executing => ~CanExecute

\* C27 witness: a second execution is in flight after the first has ended with
\* onComplete.
C27_Witness ==
    /\ editor.runs[1].state = "ended"
    /\ editor.runs[2].state = "live"
    /\ editor.runs[2].phase = "running"
    /\ editor.executing
    /\ editor.loads = 0

\* C29 as stated: once a workflow has been loaded, every execution that was in
\* flight at the load is aborted, so none of its callbacks can change the
\* history, the flag or the loaded nodes.
C29_AsStated ==
    \A k \in editor.loadedOver : editor.runs[k].state = "aborted"


\* C29 case: a workflow has been loaded, an execution in flight at the load is
\* still delivering, and one of its statuses is in the history of the loaded
\* workflow.
C29_Witness ==
    /\ editor.loads = 1
    /\ ~editor.pendingLoad.present
    /\ editor.started = 1
    /\ 1 \in editor.loadedOver
    /\ editor.runs[1].state = "live"
    /\ editor.statusHistory # <<>>


CanvasIdsDistinct ==
    \A i, j \in 1..Len(editor.nodes) :
        i # j => editor.nodes[i].id # editor.nodes[j].id

\* C28 as stated: the ids on the canvas are distinct and getId never returns an
\* id it has returned before.
C28_AsStated ==
    /\ CanvasIdsDistinct
    /\ ~editor.reissued

\* C28: after any sequence of drops and workflow loads no two nodes on the
\* canvas have the same id, and the id counter lies past every node_N id on the
\* canvas, so the next id generated differs from all of them.
C28_CanvasIds ==
    /\ CanvasIdsDistinct
    /\ \A i \in 1..Len(editor.nodes) : editor.nodes[i].id < editor.nodeId

\* C28 witness: a node dropped after a load sits next to the loaded node.
C28_Witness ==
    /\ editor.loads = 1
    /\ ~editor.pendingLoad.present
    /\ editor.nodes = <<CanvasNode(0, "viewNode", 0), CanvasNode(1, "functionNode", 0)>>


ListNodeAt(id) ==
    CHOOSE i \in 1..Len(editor.nodes) : editor.nodes[i].id = id

\* C30 as stated: every edge that targets a list node targets a handle input-k
\* the node shows, 0 <= k < inputCount.
C30_AsStated ==
    \A e \in editor.edges :
        e.targetHandle \in 0..(InputCount(editor.nodes[ListNodeAt(e.target)]) - 1)

\* C30 case: an input of a connected list node has been removed and an edge
\* still targets a handle the node no longer shows.
C30_Witness ==
    /\ editor.nodes[3].inputCount = 1
    /\ editor.nodes[3].removedInputIndex = 1
    /\ [source |-> 0, target |-> 2, targetHandle |-> 1] \in editor.edges

====
